---- MODULE Spec2Model ----
(***************************************************************************)
(* FlowStack: conversation state machine, payment-intent engine, event     *)
(* bus, M-Pesa connector and follow-up engines, modelled over the tables   *)
(* of migrations/001_create_tables.sql.  Each await-ed database query of a *)
(* handler is one atomic step where the interleaving with other handlers   *)
(* matters (transitionTo, checkExpiredIntents); the other handlers are one *)
(* action each.                                                            *)
(***************************************************************************)
EXTENDS Integers, Sequences, FiniteSets, TLC

VARIABLES
    conversations,      \* table conversations: conversation_id -> row (a partial function)
    state_transitions,  \* table state_transitions, per conversation, in commit order
    events,             \* table events, in insert order
    payment_intents,    \* table payment_intents: payment_intent_id -> row (a partial function)
    rowLock,            \* conversation row lock taken by SELECT ... FOR UPDATE
    th,                 \* the in-flight transitionTo call of each worker
    listenerQueue,      \* PAYMENT_CONFIRMED listener invocations not yet past db.connect()
    sweep,              \* the in-flight checkExpiredIntents run of each cron firing
    follow_up_tasks,    \* table follow_up_tasks, in insert order (Bull engine)
    followUpQueue,      \* jobs of the Bull queue 'follow-ups'
    follow_ups,         \* table follow_ups (safe-mode engine)
    outbox,             \* calls of whatsappClient.sendMessage, in order, with their outcome
    now,                \* NOW() of the database clock
    validated,          \* history: per conversation, the calls that passed line 400
    apiUpdated,         \* history: intents updateStatus was called on by other than the sweep
    budget,             \* remaining calls of each entry point (bounds the model)
    eventInserts,       \* INSERT INTO events statements of separately modelled emits
    engineResult        \* what the latest direct createIntent / updateStatus call gave its caller

fuVars == <<follow_up_tasks, followUpQueue, follow_ups, outbox>>

vars == <<conversations, state_transitions, events, payment_intents, rowLock,
          th, listenerQueue, sweep, fuVars, now, validated, apiUpdated, budget,
          eventInserts, engineResult>>

----------------------------------------------------------------------------
(* Bounds *)

MaxCalls == 3        \* transitionTo calls issued by the API workers
MaxMessages == 1     \* inbound messages handled
MaxTime == 2         \* clock ticks
MaxPayOps == 3       \* createIntent / updateStatus / connector calls
MaxSweeps == 2       \* cron firings of checkExpiredIntents
MaxFaultCalls == 3   \* transitionTo calls when storage failures are injected
MaxFaults == 1       \* storage failures injected
MaxSeqPayOps == 2    \* createIntent / updateStatus calls between sequential sweeps
MaxFollowUps == 2    \* scheduleFollowUp calls
MaxFuChecks == 1     \* cron firings of checkPendingFollowUps
MaxRuns == 4         \* executions of queued follow-up jobs
MaxSweepOps == 6     \* calls, job executions and ticks around the recovery sweep
MaxBusOps == 4       \* entry-point calls and failed emits of the event-bus runs
MaxPaidOps == 4      \* entry-point calls of the payment-reaction runs
MaxAdminOps == 4     \* entry-point calls of the payment-create runs
MaxMpesaOps == 5     \* calls of the payment engine and the connector together
MaxEmits == 3        \* emit calls of the event-log runs
MaxRetryOps == 4     \* scheduleFollowUp calls, job executions and ticks of the retry runs
MaxCallbackOps == 6  \* entry-point calls and ticks of the provider-callback runs
MaxWiredOps == 4     \* calls of the wired entry points
MaxSafeOps == 3      \* safe-mode sweeps and clock ticks
MaxSafeRows == 2     \* rows of table follow_ups
MaxOps == 3          \* entry-point calls in the whole-application specification

----------------------------------------------------------------------------
(* Constants of src/unnamed/part_001 (core.js) *)

CONVERSATION_STATES ==
    {"NEW_LEAD", "ENGAGED", "AWAITING_CUSTOMER", "WAITING_FOR_PAYMENT",
     "PAID", "DORMANT", "ESCALATED", "CLOSED"}

PAYMENT_INTENT_STATUS == {"initiated", "pending", "paid", "failed", "expired"}

STATE_TRANSITIONS ==
    [s \in CONVERSATION_STATES |->
        CASE s = "NEW_LEAD"            -> {"ENGAGED", "CLOSED"}
          [] s = "ENGAGED"             -> {"AWAITING_CUSTOMER", "WAITING_FOR_PAYMENT", "CLOSED"}
          [] s = "AWAITING_CUSTOMER"   -> {"ENGAGED", "DORMANT", "ESCALATED", "CLOSED"}
          [] s = "WAITING_FOR_PAYMENT" -> {"PAID", "CLOSED"}
          [] s = "PAID"                -> {"CLOSED"}
          [] s = "DORMANT"             -> {"ENGAGED", "CLOSED"}
          [] s = "ESCALATED"           -> {"ENGAGED", "CLOSED"}
          [] s = "CLOSED"              -> {}]

----------------------------------------------------------------------------
(* Identifiers and inputs *)

ConvIds == {"c1", "c2"}
Workers == {"w1", "w2"}
NoRow == "NoRow"
NULL == "NULL"
NoHolder == "none"

\* the business a customer's conversation belongs to (businesses.whatsapp_number lookup)
BusinessOf(c) == IF c = "c1" THEN "b1" ELSE "b2"

\* newState arguments: every state, and a value outside the enum
TargetInputs == CONVERSATION_STATES \cup {"BOGUS"}

----------------------------------------------------------------------------
(* StateMachine.isValidTransition *)

isValidTransitionAllowAll(fromState, toState) == TRUE

isValidTransition(fromState, toState) ==
    /\ fromState \in DOMAIN STATE_TRANSITIONS
    /\ toState \in STATE_TRANSITIONS[fromState]

----------------------------------------------------------------------------
(* EventBus.emit: INSERT INTO events, then the synchronous in-memory emit.  *)
(* The only listener that writes anything is the PAYMENT_CONFIRMED one,     *)
(* which runs up to its first await (db.connect() in transitionTo).         *)

Event(eventType, businessId, conversationId, paymentIntentId, payload) ==
    [event_type |-> eventType, business_id |-> businessId,
     conversation_id |-> conversationId, payment_intent_id |-> paymentIntentId,
     payload |-> payload]

\* payload = {} (the default argument of emit)
EmptyPayload == [none |-> NULL]

EventsAfterEmit(evs, ev) == Append(evs, ev)

ListenersAfterEmit(q, ev) ==
    IF ev.event_type = "PAYMENT_CONFIRMED" THEN Append(q, ev.conversation_id) ELSE q

\* the INSERT INTO events throws: control leaves the try block before
\* super.emit, the catch logs and rethrows
EventsAfterFailedEmit(evs, ev) == evs

DeliverUnpersisted(q, ev) == ListenersAfterEmit(q, ev)

ListenersAfterFailedEmit(q, ev) == q

\* INSERT INTO events statements sent and not yet answered; started counts
\* the statements sent so far and is the reading of CURRENT_TIMESTAMP
NoInserts == [started |-> 0, pending |-> {}]

\* the row of an event: event_id from gen_random_uuid(), created_at from
\* CURRENT_TIMESTAMP, read when the statement starts
EventRow(ev, eventId, createdAt) ==
    [event_id |-> eventId, created_at |-> createdAt] @@ ev

LoggedRows == {n \in DOMAIN events : "event_id" \in DOMAIN events[n]}

UsedEventIds ==
    {events[n].event_id : n \in LoggedRows} \cup {r.event_id : r \in eventInserts.pending}

\* emit, up to its first await: the INSERT is sent on a connection of the pool
InsertEventBegin(ev) ==
    /\ eventInserts.started < MaxEmits
    /\ \E id \in (1 .. MaxEmits) \ UsedEventIds :
          eventInserts' =
             [started |-> eventInserts.started + 1,
              pending |-> eventInserts.pending
                            \cup {EventRow(ev, id, eventInserts.started + 1)}]
    /\ UNCHANGED <<conversations, state_transitions, events, payment_intents, rowLock, th,
                   listenerQueue, sweep, fuVars, now, validated, apiUpdated, budget,
                   engineResult>>

\* the INSERT is answered: the row is in the table, super.emit delivers the
\* event and emit returns event_id
InsertEventEnd(row) ==
    /\ row \in eventInserts.pending
    /\ events' = EventsAfterEmit(events, row)
    /\ listenerQueue' = ListenersAfterEmit(listenerQueue, row)
    /\ eventInserts' = [eventInserts EXCEPT !.pending = @ \ {row}]
    /\ UNCHANGED <<conversations, state_transitions, payment_intents, rowLock, th, sweep,
                   fuVars, now, validated, apiUpdated, budget, engineResult>>

\* no createIntent / updateStatus call has been made from outside yet
NoResult == [call |-> "none", resolved |-> TRUE, raised |-> FALSE]

----------------------------------------------------------------------------
(* Rows *)

ConversationRow(businessId) ==
    [business_id |-> businessId, current_state |-> "NEW_LEAD",
     previous_state |-> NULL, message_count |-> 0]

TransitionRow(fromState, toState, trigger) ==
    [from_state |-> fromState, to_state |-> toState, trigger |-> trigger]

IdleCall ==
    [pc |-> "idle", caller |-> "none", conversationId |-> "c1", newState |-> "NEW_LEAD",
     trigger |-> "none", currentState |-> NULL, txState |-> FALSE, txLog |-> FALSE,
     committed |-> FALSE, result |-> "none", startLen |-> 0, startState |-> NoRow,
     amount |-> 0]

\* a call of transitionTo(conversationId, newState, trigger) entering db.connect()
NewCall(caller, c, newState, trigger, amount) ==
    [IdleCall EXCEPT !.pc = "begin", !.caller = caller, !.conversationId = c,
                     !.newState = newState, !.trigger = trigger, !.amount = amount,
                     !.startLen = Len(state_transitions[c]),
                     !.startState = IF c \in DOMAIN conversations
                                    THEN conversations[c].current_state ELSE NoRow]

Exists(c) == c \in DOMAIN conversations

Sweepers == {"s1", "s2"}

IdleSweep == [pc |-> "idle", rows |-> {}]

AnyNumber == 0 - 1

\* an entry point is called: one call off the total and, where the entry point
\* has a budget of its own (AnyNumber when it has none), one off that
Spend(entry) ==
    /\ budget[entry] # 0
    /\ budget.ops > 0
    /\ budget' = [budget EXCEPT ![entry] = IF @ > 0 THEN @ - 1 ELSE @, !.ops = @ - 1]

----------------------------------------------------------------------------
(* Initial state: empty tables, nothing in flight *)

InitTables ==
    /\ conversations = <<>>
    /\ state_transitions = [c \in ConvIds |-> <<>>]
    /\ events = <<>>
    /\ rowLock = [c \in ConvIds |-> NoHolder]
    /\ th = [w \in Workers |-> IdleCall]
    /\ listenerQueue = <<>>
    /\ now = 0
    /\ validated = [c \in ConvIds |-> <<>>]
    /\ apiUpdated = {}
    /\ eventInserts = NoInserts
    /\ engineResult = NoResult

----------------------------------------------------------------------------
(* MessageHandler.handleIncomingMessage: find or create the conversation,   *)
(* store the message, bump the activity counters.  An unknown business      *)
(* number inserts no row and the handler throws on newConv.rows[0].         *)

WhatsappNumbers == {"known", "unknown"}

ConversationsAfterMessageEngaging(convs, c) ==
    LET row == IF c \in DOMAIN convs
               THEN [convs[c] EXCEPT !.previous_state = convs[c].current_state,
                                     !.current_state = "ENGAGED"]
               ELSE ConversationRow(BusinessOf(c))
    IN [x \in DOMAIN convs \cup {c} |->
          IF x = c THEN [row EXCEPT !.message_count = @ + 1] ELSE convs[x]]

ConversationsAfterMessage(convs, c) ==
    LET row == IF c \in DOMAIN convs THEN convs[c] ELSE ConversationRow(BusinessOf(c))
    IN [x \in DOMAIN convs \cup {c} |->
          IF x = c THEN [row EXCEPT !.message_count = @ + 1] ELSE convs[x]]

HandleIncomingMessage(c, to) ==
    /\ Spend("messages")
    /\ IF to = "known"
       THEN /\ conversations' = ConversationsAfterMessage(conversations, c)
            /\ events' = IF Exists(c) THEN events
                          ELSE EventsAfterEmit(events,
                                   Event("NEW_LEAD", BusinessOf(c), c, NULL, EmptyPayload))
       ELSE UNCHANGED <<conversations, events>>
    /\ UNCHANGED <<engineResult, eventInserts, state_transitions, payment_intents, rowLock, th, listenerQueue,
                   sweep, fuVars, apiUpdated, now, validated>>

----------------------------------------------------------------------------
(* StateMachine.transitionTo, one step per await-ed query *)

\* SELECT ... FOR UPDATE waits while another transaction holds the row
RowLockIgnored(c) == TRUE

RowLockFree(c) == rowLock[c] = NoHolder

\* the UPDATE runs on the transaction's client: other sessions see the
\* conversations table unchanged until COMMIT
UpdateOnPool(convs, t) ==
    [convs EXCEPT ![t.conversationId] =
        [@ EXCEPT !.current_state = t.newState, !.previous_state = t.currentState]]

ConversationsDuringTx(convs, t) == convs

ConversationsAfterCommit(convs, t) ==
    IF t.txState
    THEN [convs EXCEPT ![t.conversationId] =
            [@ EXCEPT !.current_state = t.newState, !.previous_state = t.currentState]]
    ELSE convs

TransitionsAfterCommit(trs, t) ==
    IF t.txLog
    THEN [trs EXCEPT ![t.conversationId] =
            Append(@, TransitionRow(t.currentState, t.newState, t.trigger))]
    ELSE trs

ApiTriggers == {"customer_replied"}

\* a caller of the StateMachine API with arbitrary arguments
ApiCall(w, c, s) ==
    /\ th[w].pc = "idle"
    /\ Spend("calls")
    /\ \E g \in ApiTriggers :
          th' = [th EXCEPT ![w] = NewCall("api", c, s, g, 0)]
    /\ UNCHANGED <<engineResult, eventInserts, conversations, state_transitions, events, payment_intents, rowLock,
                   listenerQueue, sweep, fuVars, apiUpdated, now, validated>>

\* BEGIN; SELECT current_state ... FOR UPDATE; the not-found and validation checks
SelectForUpdate(w) ==
    LET t == th[w]
        c == t.conversationId
    IN /\ t.pc = "begin"
       /\ IF ~Exists(c)
          THEN /\ th' = [th EXCEPT ![w] = [t EXCEPT !.pc = "return", !.result = "not_found"]]
               /\ UNCHANGED <<rowLock, validated>>
          ELSE /\ RowLockFree(c)
               /\ LET cur == conversations[c].current_state
                  IN IF isValidTransition(cur, t.newState)
                     THEN /\ rowLock' = [rowLock EXCEPT ![c] = w]
                          /\ th' = [th EXCEPT ![w] =
                                      [t EXCEPT !.pc = "update", !.currentState = cur]]
                          /\ validated' = [validated EXCEPT ![c] =
                                      Append(@, TransitionRow(cur, t.newState, t.trigger))]
                     ELSE /\ th' = [th EXCEPT ![w] =
                                      [t EXCEPT !.pc = "return", !.currentState = cur,
                                                !.result = "invalid"]]
                          /\ UNCHANGED <<rowLock, validated>>
       /\ UNCHANGED <<engineResult, eventInserts, conversations, state_transitions, events, payment_intents,
                      listenerQueue, sweep, fuVars, apiUpdated, now, budget>>

\* UPDATE conversations SET current_state = $1, previous_state = $2
TxUpdate(w) ==
    LET t == th[w]
    IN /\ t.pc = "update"
       /\ th' = [th EXCEPT ![w] = [t EXCEPT !.pc = "insert", !.txState = TRUE]]
       /\ conversations' = ConversationsDuringTx(conversations, t)
       /\ UNCHANGED <<engineResult, eventInserts, state_transitions, events, payment_intents, rowLock,
                      listenerQueue, sweep, fuVars, apiUpdated, now, validated, budget>>

\* INSERT INTO state_transitions
TxInsert(w) ==
    LET t == th[w]
    IN /\ t.pc = "insert"
       /\ th' = [th EXCEPT ![w] = [t EXCEPT !.pc = "commit", !.txLog = TRUE]]
       /\ UNCHANGED <<engineResult, eventInserts, conversations, state_transitions, events, payment_intents, rowLock,
                      listenerQueue, sweep, fuVars, apiUpdated, now, validated, budget>>

\* COMMIT: both writes become visible together and the row lock is released
TxCommit(w) ==
    LET t == th[w]
    IN /\ t.pc = "commit"
       /\ conversations' = ConversationsAfterCommit(conversations, t)
       /\ state_transitions' = TransitionsAfterCommit(state_transitions, t)
       /\ rowLock' = [rowLock EXCEPT ![t.conversationId] = NoHolder]
       /\ th' = [th EXCEPT ![w] = [t EXCEPT !.pc = "emit", !.committed = TRUE]]
       /\ UNCHANGED <<engineResult, eventInserts, events, payment_intents, listenerQueue, sweep, fuVars, apiUpdated, now, validated,
                      budget>>

\* eventBus.emit(STATE_CHANGED, ...) after COMMIT
EmitStateChanged(w) ==
    LET t == th[w]
        ev == Event("STATE_CHANGED", conversations[t.conversationId].business_id,
                    t.conversationId, NULL,
                    [from_state |-> t.currentState, to_state |-> t.newState,
                     trigger |-> t.trigger])
    IN /\ t.pc = "emit"
       /\ events' = EventsAfterEmit(events, ev)
       /\ listenerQueue' = ListenersAfterEmit(listenerQueue, ev)
       /\ th' = [th EXCEPT ![w] = [t EXCEPT !.pc = "return", !.result = "ok"]]
       /\ UNCHANGED <<engineResult, eventInserts, conversations, state_transitions, payment_intents, rowLock, sweep, fuVars, apiUpdated,
                      now, validated, budget>>

\* a query of the transaction fails: catch, ROLLBACK, rethrow
TxFault(w) ==
    LET t == th[w]
    IN /\ t.pc \in {"update", "insert", "commit"}
       /\ budget.faults > 0
       /\ budget' = [budget EXCEPT !.faults = @ - 1]
       /\ rowLock' = [rowLock EXCEPT ![t.conversationId] = NoHolder]
       /\ th' = [th EXCEPT ![w] = [t EXCEPT !.pc = "return", !.result = "storage_error"]]
       /\ UNCHANGED <<engineResult, eventInserts, conversations, state_transitions, events, payment_intents,
                      listenerQueue, sweep, fuVars, apiUpdated, now, validated>>

\* the INSERT INTO events of the STATE_CHANGED emit fails: catch, ROLLBACK
\* (nothing left to roll back after COMMIT), rethrow
EmitFault(w) ==
    LET t == th[w]
    IN /\ t.pc = "emit"
       /\ budget.faults > 0
       /\ budget' = [budget EXCEPT !.faults = @ - 1]
       /\ th' = [th EXCEPT ![w] = [t EXCEPT !.pc = "return", !.result = "storage_error"]]
       /\ UNCHANGED <<engineResult, eventInserts, conversations, state_transitions, events, payment_intents, rowLock,
                      listenerQueue, sweep, fuVars, apiUpdated, now, validated>>

\* finally: client.release(); the API caller gets the result or the error
ApiReturn(w) ==
    /\ th[w].pc = "return"
    /\ th[w].caller = "api"
    /\ th' = [th EXCEPT ![w] = IdleCall]
    /\ UNCHANGED <<engineResult, eventInserts, conversations, state_transitions, events, payment_intents, rowLock,
                   listenerQueue, sweep, fuVars, apiUpdated, now, validated, budget>>

----------------------------------------------------------------------------
(* PaymentIntentEngine *)

NullTime == -1      \* a NULL timestamp column
NoReference == 0    \* a NULL provider_reference

TerminalStatus == {"paid", "failed", "expired"}

AmountInputs == {0 - 5, 0, 1000}
ExpiryHoursInputs == {1, 2}

NoFields == [col \in {} |-> NULL]

\* metadata objects passed to updateStatus: none, the connector's two shapes,
\* and objects naming other columns of payment_intents
MetadataInputs ==
    << NoFields,
       [provider_transaction_id |-> "R1"],
       [failure_reason |-> "cancelled"],
       [status |-> "pending"],
       [expected_amount |-> 1] >>

\* (newStatus, metadata) argument pairs of updateStatus: every status without
\* metadata, the connector's two calls, and the two objects naming other columns
UpdateInputs ==
    {<<st, 1>> : st \in PAYMENT_INTENT_STATUS}
        \cup {<<"paid", 2>>, <<"failed", 3>>, <<"paid", 4>>, <<"expired", 5>>}

IntentRow(c, businessId, amount, expiresAt) ==
    [conversation_id |-> c, business_id |-> businessId, expected_amount |-> amount,
     currency |-> "KES", status |-> "initiated", expires_at |-> expiresAt,
     paid_at |-> NullTime, failed_at |-> NullTime, failure_reason |-> NULL,
     provider_reference |-> NoReference, provider_transaction_id |-> NULL]

\* req.body.amount absent: undefined is bound as NULL
UndefinedAmount == 0 - 1

\* createIntent's INSERT ... SELECT gives a row: the conversation exists and
\* expected_amount, a NOT NULL column, is given a value
InsertsIntent(c, amount) ==
    c \in DOMAIN conversations /\ amount # UndefinedAmount

\* createIntent: INSERT ... SELECT ... FROM conversations WHERE conversation_id = $1;
\* with no such conversation no row is inserted and intent.business_id throws;
\* a NULL expected_amount makes the INSERT itself throw
IntentsAfterCreateExpiringNow(intents, c, amount, expiryHours) ==
    IF InsertsIntent(c, amount)
    THEN Append(intents, IntentRow(c, conversations[c].business_id, amount, now))
    ELSE intents

IntentsAfterCreate(intents, c, amount, expiryHours) ==
    IF InsertsIntent(c, amount)
    THEN Append(intents, IntentRow(c, conversations[c].business_id, amount,
                                   now + expiryHours))
    ELSE intents

CreatedEvent(intents, c, amount, expiryHours) ==
    Event("PAYMENT_INITIATED", intents[Len(intents)].business_id, c, Len(intents),
          [amount |-> amount, expiryHours |-> expiryHours])

\* what createIntent gives its caller: the intent, or the error of the catch
\* block (the INSERT's, or the TypeError of intent.business_id on no row)
CreateIntentResult(c, amount) ==
    [call |-> "createIntent", resolved |-> c \in DOMAIN conversations,
     raised |-> ~InsertsIntent(c, amount)]

CreateIntent(c, amount, expiryHours) ==
    /\ Spend("payops")
    /\ payment_intents' = IntentsAfterCreate(payment_intents, c, amount, expiryHours)
    /\ IF InsertsIntent(c, amount)
       THEN LET ev == CreatedEvent(payment_intents', c, amount, expiryHours)
            IN /\ events' = EventsAfterEmit(events, ev)
               /\ listenerQueue' = ListenersAfterEmit(listenerQueue, ev)
       ELSE UNCHANGED <<events, listenerQueue>>
    /\ engineResult' = CreateIntentResult(c, amount)
    /\ UNCHANGED <<eventInserts, conversations, state_transitions, rowLock, th, sweep, fuVars, now,
                   validated, apiUpdated>>

\* updates = { status: newStatus, updated_at, ...metadata }, then paid_at / failed_at
StatusUpdates(newStatus, metadata) ==
    (IF newStatus = "paid" THEN [paid_at |-> now]
     ELSE IF newStatus = "failed" THEN [failed_at |-> now]
     ELSE NoFields)
    @@ metadata @@ [status |-> newStatus]

\* UPDATE payment_intents SET <fields> WHERE payment_intent_id = $1 RETURNING *
IntentsAfterUpdate(intents, id, newStatus, metadata) ==
    IF id \in DOMAIN intents
    THEN LET u == StatusUpdates(newStatus, metadata)
         IN [intents EXCEPT ![id] =
               [col \in DOMAIN intents[id] |->
                  IF col \in DOMAIN u THEN u[col] ELSE intents[id][col]]]
    ELSE intents

\* the statuses for which updateStatus emits an event
EmittingStatus == {"paid", "failed", "expired"}

\* the event emitted for newStatus from the row RETURNING * gave back
StatusEvent(intent, id, newStatus, metadata) ==
    IF newStatus = "paid"
    THEN Event("PAYMENT_CONFIRMED", intent.business_id, intent.conversation_id, id,
               [amount |-> intent.expected_amount])
    ELSE IF newStatus = "failed"
    THEN Event("PAYMENT_FAILED", intent.business_id, intent.conversation_id, id,
               [reason |-> IF "failure_reason" \in DOMAIN metadata
                           THEN metadata.failure_reason ELSE "undefined"])
    ELSE Event("PAYMENT_EXPIRED", intent.business_id, intent.conversation_id, id,
               EmptyPayload)

\* with no such row intent is undefined: intent.business_id throws before any emit
EventsAfterUpdate(evs, intents, id, newStatus, metadata) ==
    IF id \in DOMAIN intents /\ newStatus \in EmittingStatus
    THEN EventsAfterEmit(evs, StatusEvent(intents[id], id, newStatus, metadata))
    ELSE evs

ListenersAfterUpdate(q, intents, id, newStatus, metadata) ==
    IF id \in DOMAIN intents /\ newStatus \in EmittingStatus
    THEN ListenersAfterEmit(q, StatusEvent(intents[id], id, newStatus, metadata))
    ELSE q

\* ids a caller may pass: every row and one id that resolves to nothing
IntentIdInputs == 1 .. (Len(payment_intents) + 1)

\* what updateStatus gives its caller: result.rows[0], which is undefined when
\* no row matched; only the three emitting branches read intent.business_id
\* and throw on it, for any other newStatus undefined is returned
UpdateStatusResult(intents, id, newStatus) ==
    [call |-> "updateStatus", resolved |-> id \in DOMAIN intents,
     raised |-> id \notin DOMAIN intents /\ newStatus \in EmittingStatus]

\* updateStatus called directly (the provider connector's call is HandleCallback)
UpdateStatus(id, newStatus, metadata) ==
    /\ Spend("payops")
    /\ payment_intents' = IntentsAfterUpdate(payment_intents, id, newStatus, metadata)
    /\ events' = EventsAfterUpdate(events, payment_intents', id, newStatus, metadata)
    /\ listenerQueue' =
          ListenersAfterUpdate(listenerQueue, payment_intents', id, newStatus, metadata)
    /\ apiUpdated' = apiUpdated \cup {id}
    /\ engineResult' = UpdateStatusResult(payment_intents, id, newStatus)
    /\ UNCHANGED <<eventInserts, conversations, state_transitions, rowLock, th, sweep, fuVars, now,
                   validated>>

\* updateStatus whose UPDATE succeeds and whose eventBus.emit fails on its
\* INSERT INTO events: the status stays written, the error reaches the caller
UpdateStatusEmitFails(id, newStatus, metadata) ==
    /\ id \in DOMAIN payment_intents
    /\ newStatus \in EmittingStatus
    /\ Spend("faults")
    /\ payment_intents' = IntentsAfterUpdate(payment_intents, id, newStatus, metadata)
    /\ LET ev == StatusEvent(payment_intents'[id], id, newStatus, metadata)
       IN /\ events' = EventsAfterFailedEmit(events, ev)
          /\ listenerQueue' = ListenersAfterFailedEmit(listenerQueue, ev)
    /\ apiUpdated' = apiUpdated \cup {id}
    /\ engineResult' = [call |-> "updateStatus", resolved |-> TRUE, raised |-> TRUE]
    /\ UNCHANGED <<eventInserts, conversations, state_transitions, rowLock, th, sweep, fuVars, now,
                   validated>>

\* SELECT * FROM payment_intents WHERE status IN ('initiated','pending')
\*   AND expires_at < NOW()
ExpiredRowsAnyStatus(intents) ==
    {i \in DOMAIN intents : intents[i].expires_at < now}

ExpiredRows(intents) ==
    {i \in DOMAIN intents :
        /\ intents[i].status \in {"initiated", "pending"}
        /\ intents[i].expires_at < now}

\* checkExpiredIntents, first await: the SELECT
SweepSelect(s) ==
    /\ sweep[s].pc = "idle"
    /\ Spend("sweeps")
    /\ LET rows == ExpiredRows(payment_intents)
       IN sweep' = [sweep EXCEPT ![s] =
                      [pc |-> IF rows = {} THEN "idle" ELSE "run", rows |-> rows]]
    /\ UNCHANGED <<engineResult, eventInserts, conversations, state_transitions, events, payment_intents, rowLock, th,
                   listenerQueue, fuVars, now, validated, apiUpdated>>

\* checkExpiredIntents, one turn of the loop: updateStatus(id, 'expired')
SweepUpdate(s) ==
    /\ sweep[s].pc = "run"
    /\ \E id \in sweep[s].rows :
         /\ payment_intents' = IntentsAfterUpdate(payment_intents, id, "expired", NoFields)
         /\ events' = EventsAfterUpdate(events, payment_intents', id, "expired", NoFields)
         /\ listenerQueue' = ListenersAfterUpdate(listenerQueue, payment_intents', id,
                                                  "expired", NoFields)
         /\ LET rest == sweep[s].rows \ {id}
            IN sweep' = [sweep EXCEPT ![s] =
                           [pc |-> IF rest = {} THEN "idle" ELSE "run", rows |-> rest]]
    /\ UNCHANGED <<engineResult, eventInserts, conversations, state_transitions, rowLock, th, fuVars, now, validated,
                   apiUpdated, budget>>

\* the whole of checkExpiredIntents run without interleaving: every selected
\* row goes through updateStatus(id, 'expired')
RECURSIVE IntentsAfterSweep(_, _)
IntentsAfterSweep(intents, rows) ==
    IF rows = {} THEN intents
    ELSE LET id == CHOOSE x \in rows : \A y \in rows : x <= y
         IN IntentsAfterSweep(IntentsAfterUpdate(intents, id, "expired", NoFields),
                              rows \ {id})

RECURSIVE EventsAfterSweep(_, _, _)
EventsAfterSweep(evs, intents, rows) ==
    IF rows = {} THEN evs
    ELSE LET id == CHOOSE x \in rows : \A y \in rows : x <= y
             after == IntentsAfterUpdate(intents, id, "expired", NoFields)
         IN EventsAfterSweep(EventsAfterUpdate(evs, after, id, "expired", NoFields),
                             after, rows \ {id})

CheckExpiredIntents ==
    /\ Spend("sweeps")
    /\ LET rows == ExpiredRows(payment_intents)
       IN /\ payment_intents' = IntentsAfterSweep(payment_intents, rows)
          /\ events' = EventsAfterSweep(events, payment_intents, rows)
    /\ UNCHANGED <<engineResult, eventInserts, conversations, state_transitions, rowLock, th, listenerQueue, sweep,
                   fuVars, now, validated, apiUpdated>>

DefaultExpiryHours == 48

\* the database clock advances
Tick ==
    /\ now < MaxTime
    /\ Spend("ticks")
    /\ now' = now + 1
    /\ UNCHANGED <<engineResult, eventInserts, conversations, state_transitions, events, payment_intents, rowLock, th,
                   listenerQueue, sweep, fuVars, validated, apiUpdated>>

\* the database clock advances past the default life of an intent
Elapse(hours) ==
    /\ now + hours <= MaxTime + DefaultExpiryHours + 1
    /\ Spend("ticks")
    /\ now' = now + hours
    /\ UNCHANGED <<engineResult, eventInserts, conversations, state_transitions, events, payment_intents, rowLock, th,
                   listenerQueue, sweep, fuVars, validated, apiUpdated>>

----------------------------------------------------------------------------
(* FlowStackApp: the admin payment-create route and the PAYMENT_CONFIRMED    *)
(* listener, both callers of transitionTo                                    *)

\* the amount of a request body: any number, or none at all
RequestAmountInputs == AmountInputs \cup {UndefinedAmount}

\* POST /api/payments/create: transitionTo(WAITING_FOR_PAYMENT), then createIntent
AdminCreate(w) ==
    /\ th[w].pc = "idle"
    /\ Spend("admin")
    /\ \E c \in ConvIds, a \in RequestAmountInputs :
          th' = [th EXCEPT ![w] =
                   NewCall("admin", c, "WAITING_FOR_PAYMENT", "payment_requested", a)]
    /\ UNCHANGED <<engineResult, eventInserts, conversations, state_transitions, events, payment_intents, rowLock,
                   listenerQueue, sweep, fuVars, now, validated, apiUpdated>>

\* transitionTo returned to the route: createIntent(conversationId, amount) when
\* it did not throw, the 500 response otherwise; an error of createIntent ends
\* in the same 500 response, the transition stays committed
AdminReturn(w) ==
    LET t == th[w]
        c == t.conversationId
    IN /\ t.pc = "return"
       /\ t.caller = "admin"
       /\ th' = [th EXCEPT ![w] = IdleCall]
       /\ IF t.result = "ok" /\ InsertsIntent(c, t.amount)
          THEN /\ payment_intents' =
                     IntentsAfterCreate(payment_intents, c, t.amount, DefaultExpiryHours)
               /\ LET ev == CreatedEvent(payment_intents', c, t.amount, DefaultExpiryHours)
                  IN /\ events' = EventsAfterEmit(events, ev)
                     /\ listenerQueue' = ListenersAfterEmit(listenerQueue, ev)
          ELSE UNCHANGED <<payment_intents, events, listenerQueue>>
       /\ UNCHANGED <<engineResult, eventInserts, conversations, state_transitions, rowLock, sweep, fuVars, now,
                      validated, apiUpdated, budget>>

ReactionTargetEngaged == "ENGAGED"

\* the state the PAYMENT_CONFIRMED listener asks for: CONVERSATION_STATES.PAID
ReactionTarget == "PAID"

\* eventBus.on('PAYMENT_CONFIRMED'): transitionTo(event.conversationId, PAID)
ListenerCall(w) ==
    /\ th[w].pc = "idle"
    /\ listenerQueue # <<>>
    /\ th' = [th EXCEPT ![w] =
                NewCall("listener", Head(listenerQueue), ReactionTarget,
                        "PAYMENT_CONFIRMED", 0)]
    /\ listenerQueue' = Tail(listenerQueue)
    /\ UNCHANGED <<engineResult, eventInserts, conversations, state_transitions, events, payment_intents, rowLock,
                   sweep, fuVars, now, validated, apiUpdated, budget>>

EventsRolledBackByHandler(evs, t) ==
    IF t.result = "ok" THEN evs ELSE SubSeq(evs, 1, Len(evs) - 1)

\* the catch block of the listener only logs: the event log is as it was
EventsAfterHandler(evs, t) == evs

\* the listener's try/catch: an error of transitionTo is logged and dropped
ListenerReturn(w) ==
    /\ th[w].pc = "return"
    /\ th[w].caller = "listener"
    /\ th' = [th EXCEPT ![w] = IdleCall]
    /\ events' = EventsAfterHandler(events, th[w])
    /\ UNCHANGED <<engineResult, eventInserts, conversations, state_transitions, payment_intents, rowLock,
                   listenerQueue, sweep, fuVars, now, validated, apiUpdated, budget>>

----------------------------------------------------------------------------
(* MPesaConnector *)

\* initiatePayment: on ResponseCode '0' the CheckoutRequestID is stored as
\* provider_reference; any other answer throws before the UPDATE
IntentsAfterStkPushSettingPending(intents, id, checkoutRequestID) ==
    IF id \in DOMAIN intents
    THEN [intents EXCEPT ![id] = [@ EXCEPT !.provider_reference = checkoutRequestID,
                                           !.status = "pending"]]
    ELSE intents

IntentsAfterStkPush(intents, id, checkoutRequestID) ==
    IF id \in DOMAIN intents
    THEN [intents EXCEPT ![id] = [@ EXCEPT !.provider_reference = checkoutRequestID]]
    ELSE intents

\* the CheckoutRequestIDs Safaricom hands out: a fresh one per accepted push
CheckoutRequestInputs == 1 .. (Len(payment_intents) + 1)

InitiatePayment(id, accepted) ==
    /\ Spend("stk")
    /\ payment_intents' =
          IF accepted THEN IntentsAfterStkPush(payment_intents, id, id)
          ELSE payment_intents
    /\ UNCHANGED <<engineResult, eventInserts, conversations, state_transitions, events, rowLock, th, listenerQueue,
                   sweep, fuVars, now, validated, apiUpdated>>

\* SELECT payment_intent_id FROM payment_intents WHERE provider_reference = $1
IntentsByReference(intents, checkoutRequestID) ==
    {i \in DOMAIN intents : intents[i].provider_reference = checkoutRequestID}

\* the (newStatus, metadata) handleCallback passes to updateStatus
CallbackStatus(resultCode) == IF resultCode = 0 THEN "paid" ELSE "failed"

CallbackMetadata(resultCode) ==
    IF resultCode = 0 THEN [provider_transaction_id |-> "R1"]
    ELSE [failure_reason |-> "cancelled"]

ResultCodeInputs == {0, 1032}

\* handleCallback: the intent is found by its provider_reference and updated
\* through updateStatus; an unknown CheckoutRequestID is dropped
HandleCallback(checkoutRequestID, resultCode) ==
    LET found == IntentsByReference(payment_intents, checkoutRequestID)
        st == CallbackStatus(resultCode)
        md == CallbackMetadata(resultCode)
    IN /\ Spend("callbacks")
       /\ IF found = {}
          THEN UNCHANGED <<payment_intents, events, listenerQueue, apiUpdated>>
          ELSE LET id == CHOOSE i \in found : \A j \in found : i <= j
               IN /\ payment_intents' = IntentsAfterUpdate(payment_intents, id, st, md)
                  /\ events' = EventsAfterUpdate(events, payment_intents', id, st, md)
                  /\ listenerQueue' =
                        ListenersAfterUpdate(listenerQueue, payment_intents', id, st, md)
                  /\ apiUpdated' = apiUpdated \cup {id}
       /\ UNCHANGED <<engineResult, eventInserts, conversations, state_transitions, rowLock, th, sweep, fuVars, now,
                      validated>>

----------------------------------------------------------------------------
(* FollowUpEngine on the Bull queue (src/src/followUpEngine.js) *)

JobAttempts == 3
SweepBatch == 100

KnownTemplates ==
    {"welcome_template", "follow_up_gentle", "follow_up_reminder", "payment_pending",
     "payment_expired", "payment_confirmed"}

TemplateInputs == {"follow_up_gentle", "no_such_template"}
DelayInputs == {0, 1}

TaskRow(c, businessId, templateKey, scheduledTime) ==
    [conversation_id |-> c, business_id |-> businessId,
     message_template_key |-> templateKey, scheduled_time |-> scheduledTime,
     status |-> "pending", message_sent |-> FALSE]

\* no task row stands behind a job
NoTask == 0

\* a job as followUpQueue.add builds it; task is history: the follow_up_tasks
\* row the job was added for (the job data itself carries no task id)
Job(c, templateKey, notBefore, removeOnComplete, task) ==
    [conversationId |-> c, templateKey |-> templateKey, notBefore |-> notBefore,
     attemptsLeft |-> JobAttempts, removeOnComplete |-> removeOnComplete, task |-> task]

\* one call of whatsappClient.sendMessage for a follow-up and whether it returned
SendRecord(c, templateKey, task, ok) ==
    [to |-> c, template |-> templateKey, task |-> task, ok |-> ok]

\* scheduleFollowUp: followUpQueue.add first, then INSERT ... SELECT ... FROM
\* conversations, which inserts nothing for an unknown conversation
ScheduleFollowUp(c, templateKey, delayMinutes) ==
    /\ Spend("followups")
    /\ followUpQueue' =
          Append(followUpQueue,
                 Job(c, templateKey, now + delayMinutes, TRUE,
                     IF c \in DOMAIN conversations THEN Len(follow_up_tasks) + 1
                     ELSE NoTask))
    /\ follow_up_tasks' =
          IF c \in DOMAIN conversations
          THEN Append(follow_up_tasks,
                      TaskRow(c, conversations[c].business_id, templateKey,
                              now + delayMinutes))
          ELSE follow_up_tasks
    /\ UNCHANGED <<engineResult, eventInserts, conversations, state_transitions, events, payment_intents, rowLock, th,
                   listenerQueue, sweep, follow_ups, outbox, now, validated, apiUpdated>>

RemoveAt(q, k) == SubSeq(q, 1, k - 1) \o SubSeq(q, k + 1, Len(q))

\* the rows the success UPDATE may hit: WHERE conversation_id = $3
\*   AND message_template_key = $4 AND status = 'pending' LIMIT 1
PendingFor(tasks, c, templateKey) ==
    {k \in DOMAIN tasks :
        /\ tasks[k].conversation_id = c
        /\ tasks[k].message_template_key = templateKey
        /\ tasks[k].status = "pending"}

\* the rows the catch block's UPDATE may hit: WHERE conversation_id = $1
\*   AND status = 'pending' LIMIT 1
PendingOf(tasks, c) ==
    {k \in DOMAIN tasks : tasks[k].conversation_id = c /\ tasks[k].status = "pending"}

\* a job the queue may run now
Runnable(k) == k \in DOMAIN followUpQueue /\ followUpQueue[k].notBefore <= now

\* processFollowUp, every step up to the send succeeds
ProcessFollowUpSent(k) ==
    /\ Runnable(k)
    /\ Spend("runs")
    /\ LET job == followUpQueue[k]
           c == job.conversationId
           hit == PendingFor(follow_up_tasks, c, job.templateKey)
       IN /\ c \in DOMAIN conversations
          /\ job.templateKey \in KnownTemplates
          /\ outbox' = Append(outbox, SendRecord(c, job.templateKey, job.task, TRUE))
          /\ IF hit = {} THEN UNCHANGED follow_up_tasks
             ELSE \E t \in hit :
                    follow_up_tasks' = [follow_up_tasks EXCEPT ![t] =
                        [@ EXCEPT !.status = "completed", !.message_sent = TRUE]]
          /\ events' = EventsAfterEmit(events,
                 Event("FOLLOW_UP_SENT", conversations[c].business_id, c, NULL,
                       [template |-> job.templateKey]))
          /\ followUpQueue' = RemoveAt(followUpQueue, k)
    /\ UNCHANGED <<engineResult, eventInserts, conversations, state_transitions, payment_intents, rowLock, th,
                   listenerQueue, sweep, follow_ups, now, validated, apiUpdated>>

\* processFollowUp throws: there is no conversation or no template, or else the
\* send is reached and fails; the catch block marks a pending task failed and
\* the queue keeps the job for another attempt while attempts remain
ProcessFollowUpFailed(k) ==
    /\ Runnable(k)
    /\ Spend("runs")
    /\ LET job == followUpQueue[k]
           c == job.conversationId
           hit == PendingOf(follow_up_tasks, c)
       IN /\ IF hit = {} THEN UNCHANGED follow_up_tasks
             ELSE \E t \in hit :
                    follow_up_tasks' = [follow_up_tasks EXCEPT ![t] =
                        [@ EXCEPT !.status = "failed"]]
          /\ outbox' =
                IF c \in DOMAIN conversations /\ job.templateKey \in KnownTemplates
                THEN Append(outbox, SendRecord(c, job.templateKey, job.task, FALSE))
                ELSE outbox
          /\ followUpQueue' =
                IF job.attemptsLeft > 1
                THEN [followUpQueue EXCEPT ![k] = [@ EXCEPT !.attemptsLeft = @ - 1]]
                ELSE RemoveAt(followUpQueue, k)
    /\ UNCHANGED <<engineResult, eventInserts, conversations, state_transitions, events, payment_intents, rowLock, th,
                   listenerQueue, sweep, follow_ups, now, validated, apiUpdated>>

\* the awaits of processFollowUp that follow the send
AfterSendSteps == {"update", "emit"}

\* the task table when the step after the send throws: the success UPDATE has
\* run unless it is the failing step, then the catch block's UPDATE runs
TasksAfterLateFailure(tasks, c, templateKey, step, done, failed) ==
    LET updated == IF step = "emit" /\ done \in DOMAIN tasks
                   THEN [tasks EXCEPT ![done] =
                           [@ EXCEPT !.status = "completed", !.message_sent = TRUE]]
                   ELSE tasks
    IN IF failed \in PendingOf(updated, c)
       THEN [updated EXCEPT ![failed] = [@ EXCEPT !.status = "failed"]]
       ELSE updated

\* processFollowUp sends and then throws at the task UPDATE or at the emit of
\* FOLLOW_UP_SENT: the error reaches the same catch block and the queue, which
\* keeps the job for another attempt while attempts remain
ProcessFollowUpFailsAfterSend(k, step) ==
    /\ Runnable(k)
    /\ Spend("faults")
    /\ LET job == followUpQueue[k]
           c == job.conversationId
           hit == PendingFor(follow_up_tasks, c, job.templateKey)
       IN /\ c \in DOMAIN conversations
          /\ job.templateKey \in KnownTemplates
          /\ outbox' = Append(outbox, SendRecord(c, job.templateKey, job.task, TRUE))
          /\ \E done \in (IF hit = {} THEN {NoTask} ELSE hit) :
                LET left == IF step = "emit"
                            THEN PendingOf(follow_up_tasks, c) \ {done}
                            ELSE PendingOf(follow_up_tasks, c)
                IN \E failed \in (IF left = {} THEN {NoTask} ELSE left) :
                      follow_up_tasks' =
                         TasksAfterLateFailure(follow_up_tasks, c, job.templateKey,
                                               step, done, failed)
          /\ events' = EventsAfterFailedEmit(events,
                 Event("FOLLOW_UP_SENT", conversations[c].business_id, c, NULL,
                       [template |-> job.templateKey]))
          /\ followUpQueue' =
                IF job.attemptsLeft > 1
                THEN [followUpQueue EXCEPT ![k] = [@ EXCEPT !.attemptsLeft = @ - 1]]
                ELSE RemoveAt(followUpQueue, k)
    /\ UNCHANGED <<engineResult, eventInserts, conversations, state_transitions, payment_intents, rowLock, th,
                   listenerQueue, sweep, follow_ups, now, validated, apiUpdated>>

\* SELECT * FROM follow_up_tasks WHERE status = 'pending' AND scheduled_time <= NOW()
\*   ORDER BY scheduled_time ASC LIMIT 100, as a sequence of row indices
RECURSIVE OrderByScheduledTime(_, _)
OrderByScheduledTime(tasks, rows) ==
    IF rows = {} THEN <<>>
    ELSE LET first == CHOOSE k \in rows :
                         \A j \in rows :
                            \/ tasks[k].scheduled_time < tasks[j].scheduled_time
                            \/ tasks[k].scheduled_time = tasks[j].scheduled_time /\ k <= j
         IN <<first>> \o OrderByScheduledTime(tasks, rows \ {first})

DueTasksAnyStatus(tasks) ==
    LET due == {k \in DOMAIN tasks : tasks[k].scheduled_time <= now}
        sorted == OrderByScheduledTime(tasks, due)
    IN SubSeq(sorted, 1, IF Len(sorted) < SweepBatch THEN Len(sorted) ELSE SweepBatch)

DueTasks(tasks) ==
    LET due == {k \in DOMAIN tasks :
                   tasks[k].status = "pending" /\ tasks[k].scheduled_time <= now}
        sorted == OrderByScheduledTime(tasks, due)
    IN SubSeq(sorted, 1, IF Len(sorted) < SweepBatch THEN Len(sorted) ELSE SweepBatch)

\* checkPendingFollowUps: every due pending task is added to the queue again
CheckPendingFollowUps ==
    /\ Spend("fuchecks")
    /\ LET due == DueTasks(follow_up_tasks)
       IN followUpQueue' = followUpQueue \o
             [n \in 1 .. Len(due) |->
                Job(follow_up_tasks[due[n]].conversation_id,
                    follow_up_tasks[due[n]].message_template_key, now, FALSE, due[n])]
    /\ UNCHANGED <<engineResult, eventInserts, conversations, state_transitions, events, payment_intents, rowLock, th,
                   listenerQueue, sweep, follow_up_tasks, follow_ups, outbox, now,
                   validated, apiUpdated>>

----------------------------------------------------------------------------
(* FollowUpEngine in safe mode (src/unnamed/part_002): table follow_ups, cron only *)

SafeBatch == 20

\* SELECT ... FROM follow_ups f JOIN conversations c ... WHERE f.status = 'PENDING'
\*   AND f.scheduled_at <= NOW() LIMIT 20
DueFollowUps(rows) ==
    {k \in DOMAIN rows :
        /\ rows[k].status = "PENDING"
        /\ rows[k].scheduled_at <= now
        /\ rows[k].conversation_id \in DOMAIN conversations
        /\ Cardinality({j \in 1 .. k : rows[j].status = "PENDING"}) <= SafeBatch}

\* sendFollowUp for each selected row in turn: a send that succeeds is followed
\* by UPDATE follow_ups SET status = 'SENT'; a failure is logged and skipped
RECURSIVE OutboxAfterSafeSweep(_, _, _)
OutboxAfterSafeSweep(out, rows, delivered) ==
    IF delivered = {} THEN out
    ELSE LET k == CHOOSE x \in delivered : \A y \in delivered : x <= y
         IN OutboxAfterSafeSweep(
                Append(out, SendRecord(rows[k].conversation_id, "follow_up", k, TRUE)),
                rows, delivered \ {k})

CheckPendingFollowUpsSafe ==
    /\ Spend("fuchecks")
    /\ \E delivered \in SUBSET DueFollowUps(follow_ups) :
          /\ outbox' = OutboxAfterSafeSweep(outbox, follow_ups, delivered)
          /\ follow_ups' = [k \in DOMAIN follow_ups |->
                              IF k \in delivered
                              THEN [follow_ups[k] EXCEPT !.status = "SENT"]
                              ELSE follow_ups[k]]
    /\ UNCHANGED <<engineResult, eventInserts, conversations, state_transitions, events, payment_intents, rowLock, th,
                   listenerQueue, sweep, follow_up_tasks, followUpQueue, now, validated,
                   apiUpdated>>

\* table follow_ups when the UPDATE after a delivered send throws for some
\* rows: sendFollowUp's catch logs the error and the row stays PENDING
FollowUpsAfterSafeSweep(rows, marked) ==
    [k \in DOMAIN rows |->
       IF k \in marked THEN [rows[k] EXCEPT !.status = "SENT"] ELSE rows[k]]

\* checkPendingFollowUps of the safe-mode engine during a storage failure: of
\* the rows whose send was delivered, only those in marked get their UPDATE
CheckPendingFollowUpsSafeUpdateFails ==
    /\ Spend("faults")
    /\ \E delivered \in SUBSET DueFollowUps(follow_ups) :
          /\ delivered # {}
          /\ \E marked \in (SUBSET delivered) \ {delivered} :
                /\ outbox' = OutboxAfterSafeSweep(outbox, follow_ups, delivered)
                /\ follow_ups' = FollowUpsAfterSafeSweep(follow_ups, marked)
    /\ UNCHANGED <<engineResult, eventInserts, conversations, state_transitions, events, payment_intents, rowLock, th,
                   listenerQueue, sweep, follow_up_tasks, followUpQueue, now, validated,
                   apiUpdated>>

----------------------------------------------------------------------------
(* Specifications *)

NoBudget ==
    [calls |-> 0, messages |-> 0, faults |-> 0, admin |-> 0, payops |-> 0,
     stk |-> 0, callbacks |-> 0, sweeps |-> 0, followups |-> 0, fuchecks |-> 0,
     runs |-> 0, ticks |-> 0, ops |-> 0]

InitRest ==
    /\ payment_intents = <<>>
    /\ sweep = [s \in Sweepers |-> IdleSweep]
    /\ follow_up_tasks = <<>>
    /\ followUpQueue = <<>>
    /\ follow_ups = <<>>
    /\ outbox = <<>>

\* the StateMachine API under arbitrary concurrent callers, no storage failure
InitSM ==
    /\ InitTables
    /\ InitRest
    /\ budget = [NoBudget EXCEPT !.calls = MaxCalls, !.messages = MaxMessages,
                                 !.ticks = AnyNumber,
                                 !.ops = MaxCalls + MaxMessages + MaxTime]

TransitionSteps(w) ==
    \/ SelectForUpdate(w)
    \/ TxUpdate(w)
    \/ TxInsert(w)
    \/ TxCommit(w)
    \/ EmitStateChanged(w)

NextSM ==
    \/ \E c \in ConvIds, to \in WhatsappNumbers : HandleIncomingMessage(c, to)
    \/ \E w \in Workers, c \in ConvIds, s \in TargetInputs : ApiCall(w, c, s)
    \/ \E w \in Workers : TransitionSteps(w)
    \/ \E w \in Workers : ApiReturn(w)

SpecSM == InitSM /\ [][NextSM]_vars

\* the state after the first inbound message of customer c1 has been handled
InitOneConversation ==
    /\ conversations = ConversationsAfterMessage(<<>>, "c1")
    /\ events = <<Event("NEW_LEAD", BusinessOf("c1"), "c1", NULL, EmptyPayload)>>
    /\ state_transitions = [c \in ConvIds |-> <<>>]
    /\ rowLock = [c \in ConvIds |-> NoHolder]
    /\ th = [w \in Workers |-> IdleCall]
    /\ listenerQueue = <<>>
    /\ now = 0
    /\ validated = [c \in ConvIds |-> <<>>]
    /\ apiUpdated = {}
    /\ eventInserts = NoInserts
    /\ engineResult = NoResult

\* the StateMachine API under arbitrary concurrent callers and storage failures:
\* customer c1 has written once, customer c2 never
InitSMF ==
    /\ InitOneConversation
    /\ InitRest
    /\ budget = [NoBudget EXCEPT !.calls = MaxFaultCalls, !.faults = MaxFaults,
                                 !.ops = MaxFaultCalls]

NextSMF ==
    \/ \E w \in Workers, c \in ConvIds, s \in TargetInputs : ApiCall(w, c, s)
    \/ \E w \in Workers : TransitionSteps(w)
    \/ \E w \in Workers : ApiReturn(w)
    \/ \E w \in Workers : TxFault(w)
    \/ \E w \in Workers : EmitFault(w)

SpecSMF == InitSMF /\ [][NextSMF]_vars

\* the payment engine under arbitrary callers and two concurrent expiry sweeps
InitPay ==
    /\ InitTables
    /\ InitRest
    /\ budget = [NoBudget EXCEPT !.messages = MaxMessages, !.payops = MaxPayOps,
                                 !.sweeps = MaxSweeps,
                                 !.ticks = AnyNumber,
                                 !.ops = MaxMessages + MaxPayOps + MaxSweeps + MaxTime]

PaymentCalls ==
    \/ \E c \in ConvIds, a \in AmountInputs, h \in ExpiryHoursInputs : CreateIntent(c, a, h)
    \/ \E id \in IntentIdInputs, u \in UpdateInputs :
          UpdateStatus(id, u[1], MetadataInputs[u[2]])

NextPay ==
    \/ \E c \in ConvIds, to \in WhatsappNumbers : HandleIncomingMessage(c, to)
    \/ PaymentCalls
    \/ Tick
    \/ \E s \in Sweepers : SweepSelect(s)
    \/ \E s \in Sweepers : SweepUpdate(s)

SpecPay == InitPay /\ [][NextPay]_vars

\* the payment engine with each expiry sweep run to completion on its own
InitSeq ==
    /\ InitOneConversation
    /\ InitRest
    /\ budget = [NoBudget EXCEPT !.payops = MaxSeqPayOps, !.sweeps = MaxSweeps,
                                 !.ticks = AnyNumber,
                                 !.ops = MaxSeqPayOps + MaxSweeps + MaxTime]

NextSeq ==
    \/ PaymentCalls
    \/ Tick
    \/ CheckExpiredIntents

SpecSeq == InitSeq /\ [][NextSeq]_vars

\* the Bull follow-up engine: scheduling, the queue's workers and the recovery
\* sweep, for a customer c1 who has written once and a customer c2 who never has
InitFU ==
    /\ InitOneConversation
    /\ InitRest
    /\ budget = [NoBudget EXCEPT !.followups = MaxFollowUps, !.fuchecks = MaxFuChecks,
                                 !.runs = MaxRuns, !.ticks = AnyNumber,
                                 !.ops = MaxFollowUps + MaxFuChecks + MaxRuns + MaxTime]

NextFU ==
    \/ \E c \in ConvIds, k \in TemplateInputs, d \in DelayInputs : ScheduleFollowUp(c, k, d)
    \/ \E k \in DOMAIN followUpQueue : ProcessFollowUpSent(k)
    \/ \E k \in DOMAIN followUpQueue : ProcessFollowUpFailed(k)
    \/ CheckPendingFollowUps
    \/ Tick

SpecFU == InitFU /\ [][NextFU]_vars

\* the queue's retries: every job is the only one of its task (no recovery
\* sweep), a send may fail and so may each step after a send
InitFURetry ==
    /\ InitOneConversation
    /\ InitRest
    /\ budget = [NoBudget EXCEPT !.followups = AnyNumber, !.runs = AnyNumber,
                                 !.faults = AnyNumber, !.ticks = AnyNumber,
                                 !.ops = MaxRetryOps]

NextFURetry ==
    \/ \E c \in ConvIds, k \in TemplateInputs, d \in DelayInputs : ScheduleFollowUp(c, k, d)
    \/ \E k \in DOMAIN followUpQueue : ProcessFollowUpSent(k)
    \/ \E k \in DOMAIN followUpQueue : ProcessFollowUpFailed(k)
    \/ \E k \in DOMAIN followUpQueue, step \in AfterSendSteps :
          ProcessFollowUpFailsAfterSend(k, step)
    \/ Tick

SpecFURetry == InitFURetry /\ [][NextFURetry]_vars

\* the recovery sweep among follow-ups of customer c1 that were scheduled for
\* now or later and of which some have been executed: MaxSweepOps calls,
\* job executions and clock ticks in all
InitFUSweep ==
    /\ InitOneConversation
    /\ InitRest
    /\ budget = [NoBudget EXCEPT !.followups = MaxSweepOps, !.fuchecks = MaxSweepOps,
                                 !.runs = MaxSweepOps, !.ticks = AnyNumber,
                                 !.ops = MaxSweepOps]

NextFUSweep ==
    \/ \E d \in DelayInputs : ScheduleFollowUp("c1", "follow_up_gentle", d)
    \/ \E k \in DOMAIN followUpQueue : ProcessFollowUpSent(k)
    \/ \E k \in DOMAIN followUpQueue : ProcessFollowUpFailed(k)
    \/ CheckPendingFollowUps
    \/ Tick

SpecFUSweep == InitFUSweep /\ [][NextFUSweep]_vars

\* the targets the whole-application specification asks for: an edge out of
\* NEW_LEAD, a state NEW_LEAD has no edge to, and a name that is no state
BusTargetInputs == {"ENGAGED", "WAITING_FOR_PAYMENT"}

\* the event bus between the payment engine and the PAYMENT_CONFIRMED listener,
\* with emits whose INSERT INTO events may fail
InitBus ==
    /\ InitOneConversation
    /\ InitRest
    /\ budget = [NoBudget EXCEPT !.calls = AnyNumber, !.payops = AnyNumber,
                                 !.faults = AnyNumber, !.ops = MaxBusOps]

NextBus ==
    \/ \E w \in Workers, s \in BusTargetInputs : ApiCall(w, "c1", s)
    \/ \E w \in Workers : TransitionSteps(w)
    \/ \E w \in Workers : ApiReturn(w)
    \/ \E c \in ConvIds : CreateIntent(c, 1000, 1)
    \/ \E id \in IntentIdInputs, st \in {"paid", "failed"} : UpdateStatus(id, st, NoFields)
    \/ \E id \in IntentIdInputs, st \in {"paid", "failed"} :
          UpdateStatusEmitFails(id, st, NoFields)
    \/ \E w \in Workers : ListenerCall(w)
    \/ \E w \in Workers : ListenerReturn(w)

SpecBus == InitBus /\ [][NextBus]_vars

PaidTargetInputs == {"ENGAGED", "CLOSED"}

\* the payment reaction: staff move c1 on, request a payment, the intent is
\* confirmed and the listener reacts, while staff may close the conversation.
\* Every started call runs on: the event loop resumes each awaiting call and
\* the database grants the row lock to a waiter once it is released.
InitPaid ==
    /\ InitOneConversation
    /\ InitRest
    /\ budget = [NoBudget EXCEPT !.calls = AnyNumber, !.admin = AnyNumber,
                                 !.payops = AnyNumber, !.ops = MaxPaidOps]

NextPaid ==
    \/ \E w \in Workers, s \in PaidTargetInputs : ApiCall(w, "c1", s)
    \/ \E w \in Workers : AdminCreate(w)
    \/ \E w \in Workers : TransitionSteps(w)
    \/ \E w \in Workers : ApiReturn(w)
    \/ \E w \in Workers : AdminReturn(w)
    \/ \E id \in IntentIdInputs : UpdateStatus(id, "paid", NoFields)
    \/ \E w \in Workers : ListenerCall(w)
    \/ \E w \in Workers : ListenerReturn(w)

FairPaid ==
    \A w \in Workers :
        /\ WF_vars(TransitionSteps(w))
        /\ WF_vars(ApiReturn(w))
        /\ WF_vars(AdminReturn(w))
        /\ WF_vars(ListenerCall(w))
        /\ WF_vars(ListenerReturn(w))

SpecPaid == InitPaid /\ [][NextPaid]_vars /\ FairPaid

\* the payment-create route with the provider connector and the expiry sweep;
\* other callers of transitionTo move the conversation between states
InitAdmin ==
    /\ InitOneConversation
    /\ InitRest
    /\ budget = [f \in DOMAIN NoBudget |->
                   IF f \in {"faults", "messages", "payops", "followups", "fuchecks", "runs"}
                   THEN 0
                   ELSE IF f = "ops" THEN MaxAdminOps ELSE AnyNumber]

NextAdmin ==
    \/ \E w \in Workers, s \in CONVERSATION_STATES : ApiCall(w, "c1", s)
    \/ \E w \in Workers : AdminCreate(w)
    \/ \E w \in Workers : TransitionSteps(w)
    \/ \E w \in Workers : ApiReturn(w)
    \/ \E w \in Workers : AdminReturn(w)
    \/ \E w \in Workers : ListenerCall(w)
    \/ \E w \in Workers : ListenerReturn(w)
    \/ \E id \in IntentIdInputs, accepted \in BOOLEAN : InitiatePayment(id, accepted)
    \/ \E ref \in CheckoutRequestInputs, rc \in ResultCodeInputs : HandleCallback(ref, rc)
    \/ \E s \in Sweepers : SweepSelect(s)
    \/ \E s \in Sweepers : SweepUpdate(s)
    \/ Elapse(DefaultExpiryHours + 1)

SpecAdmin == InitAdmin /\ [][NextAdmin]_vars

\* the provider callback end to end: staff engage customer c1 and request a
\* payment, the STK push is sent, Safaricom calls back any number of times
\* while the clock runs, and the PAYMENT_CONFIRMED listener reacts
InitCallback ==
    /\ InitOneConversation
    /\ InitRest
    /\ budget = [f \in DOMAIN NoBudget |->
                   IF f \in {"faults", "messages", "payops", "sweeps", "followups",
                             "fuchecks", "runs"}
                   THEN 0
                   ELSE IF f \in {"ops", "callbacks"} THEN MaxCallbackOps ELSE AnyNumber]

NextCallback ==
    \/ \E w \in Workers : ApiCall(w, "c1", "ENGAGED")
    \/ \E w \in Workers : AdminCreate(w)
    \/ \E w \in Workers : TransitionSteps(w)
    \/ \E w \in Workers : ApiReturn(w)
    \/ \E w \in Workers : AdminReturn(w)
    \/ \E w \in Workers : ListenerCall(w)
    \/ \E w \in Workers : ListenerReturn(w)
    \/ \E id \in IntentIdInputs, accepted \in BOOLEAN : InitiatePayment(id, accepted)
    \/ \E ref \in CheckoutRequestInputs, rc \in ResultCodeInputs : HandleCallback(ref, rc)
    \/ Tick

SpecCallback == InitCallback /\ [][NextCallback]_vars

\* the M-Pesa connector on top of the payment engine: intents are created,
\* STK pushes are accepted or refused, Safaricom calls back
InitMpesa ==
    /\ InitOneConversation
    /\ InitRest
    /\ budget = [NoBudget EXCEPT !.payops = MaxMpesaOps, !.stk = MaxMpesaOps,
                                 !.callbacks = MaxMpesaOps, !.ops = MaxMpesaOps]

NextMpesa ==
    \/ \E a \in AmountInputs : CreateIntent("c1", a, 1)
    \/ \E id \in IntentIdInputs, accepted \in BOOLEAN : InitiatePayment(id, accepted)
    \/ \E ref \in CheckoutRequestInputs, rc \in ResultCodeInputs : HandleCallback(ref, rc)

SpecMpesa == InitMpesa /\ [][NextMpesa]_vars

\* events the payment engine, the connector's callbacks and the follow-up
\* worker emit for conversation c1, each from a request or job of its own
EmitInputs ==
    {Event("PAYMENT_CONFIRMED", BusinessOf("c1"), "c1", 1, [amount |-> 1000]),
     Event("PAYMENT_FAILED", BusinessOf("c1"), "c1", 1, [reason |-> "cancelled"]),
     Event("FOLLOW_UP_SENT", BusinessOf("c1"), "c1", NULL,
           [template |-> "follow_up_gentle", trigger |-> "no_reply"])}

\* the event log under emits of concurrent requests, each INSERT in two
\* steps: sent, answered
InitLog ==
    /\ InitOneConversation
    /\ InitRest
    /\ budget = NoBudget

NextLog ==
    \/ \E ev \in EmitInputs : InsertEventBegin(ev)
    \/ \E row \in eventInserts.pending : InsertEventEnd(row)

SpecLog == InitLog /\ [][NextLog]_vars

\* rows of table follow_ups as they may stand when the safe-mode engine
\* starts (no code of the repository inserts into it): PENDING, for the
\* customer who has written or for an unknown conversation
SafeRowInputs ==
    [conversation_id : ConvIds, status : {"PENDING"}, scheduled_at : 0 .. MaxTime]

\* the safe-mode engine alone: sweeps run one after the other while the
\* clock advances, and the UPDATE after a send may fail
InitSafe ==
    /\ InitOneConversation
    /\ payment_intents = <<>>
    /\ sweep = [s \in Sweepers |-> IdleSweep]
    /\ follow_up_tasks = <<>>
    /\ followUpQueue = <<>>
    /\ follow_ups \in [1 .. MaxSafeRows -> SafeRowInputs]
    /\ outbox = <<>>
    /\ budget = [NoBudget EXCEPT !.fuchecks = AnyNumber, !.faults = AnyNumber,
                                 !.ticks = AnyNumber, !.ops = MaxSafeOps]

NextSafe ==
    \/ CheckPendingFollowUpsSafe
    \/ CheckPendingFollowUpsSafeUpdateFails
    \/ Tick

SpecSafe == InitSafe /\ [][NextSafe]_vars

\* the application as wired: the two webhooks, the two admin routes, the two
\* cron sweeps and the PAYMENT_CONFIRMED listener, each step of a started call
\* running on.  Customer c1 has not written yet; the conversation of customer
\* c2 was engaged from outside (no route calls transitionTo with ENGAGED).
InitWired ==
    /\ conversations =
          [c \in {"c2"} |->
             [ConversationRow(BusinessOf("c2")) EXCEPT
                 !.current_state = "ENGAGED", !.previous_state = "NEW_LEAD",
                 !.message_count = 1]]
    /\ state_transitions =
          [c \in ConvIds |->
             IF c = "c2" THEN <<TransitionRow("NEW_LEAD", "ENGAGED", "customer_replied")>>
             ELSE <<>>]
    /\ events =
          <<Event("NEW_LEAD", BusinessOf("c2"), "c2", NULL, EmptyPayload),
            Event("STATE_CHANGED", BusinessOf("c2"), "c2", NULL,
                  TransitionRow("NEW_LEAD", "ENGAGED", "customer_replied"))>>
    /\ rowLock = [c \in ConvIds |-> NoHolder]
    /\ th = [w \in Workers |-> IdleCall]
    /\ listenerQueue = <<>>
    /\ now = 0
    /\ validated =
          [c \in ConvIds |->
             IF c = "c2" THEN <<TransitionRow("NEW_LEAD", "ENGAGED", "customer_replied")>>
             ELSE <<>>]
    /\ apiUpdated = {}
    /\ eventInserts = NoInserts
    /\ engineResult = NoResult
    /\ InitRest
    /\ budget = [f \in DOMAIN NoBudget |->
                   IF f \in {"faults", "calls", "payops", "followups", "runs"} THEN 0
                   ELSE IF f \in {"ops", "fuchecks"} THEN MaxWiredOps ELSE AnyNumber]

WiredCalls ==
    \/ \E c \in ConvIds, to \in WhatsappNumbers : HandleIncomingMessage(c, to)
    \/ \E w \in Workers : AdminCreate(w)
    \/ \E id \in IntentIdInputs, accepted \in BOOLEAN : InitiatePayment(id, accepted)
    \/ \E ref \in CheckoutRequestInputs, rc \in ResultCodeInputs : HandleCallback(ref, rc)
    \/ \E s \in Sweepers : SweepSelect(s)
    \/ CheckPendingFollowUps
    \/ Elapse(DefaultExpiryHours + 1)

NextWired ==
    \/ WiredCalls
    \/ \E w \in Workers : TransitionSteps(w)
    \/ \E w \in Workers : AdminReturn(w)
    \/ \E w \in Workers : ListenerCall(w)
    \/ \E w \in Workers : ListenerReturn(w)
    \/ \E s \in Sweepers : SweepUpdate(s)

\* requests keep coming while the run lasts and every started call runs on
FairWired ==
    /\ WF_vars(WiredCalls)
    /\ \A w \in Workers :
          /\ WF_vars(TransitionSteps(w))
          /\ WF_vars(AdminReturn(w))
          /\ WF_vars(ListenerCall(w))
          /\ WF_vars(ListenerReturn(w))
    /\ \A s \in Sweepers : WF_vars(SweepUpdate(s))

SpecWired == InitWired /\ [][NextWired]_vars /\ FairWired

AppTargetInputs == {"ENGAGED", "PAID", "BOGUS"}

\* the whole application: every entry point, MaxOps calls in all; customer c1
\* has written once, and table follow_ups holds one row put there from outside
\* (no code of the repository inserts into it)
Init ==
    /\ InitOneConversation
    /\ payment_intents = <<>>
    /\ sweep = [s \in Sweepers |-> IdleSweep]
    /\ follow_up_tasks = <<>>
    /\ followUpQueue = <<>>
    /\ follow_ups = <<[conversation_id |-> "c1", status |-> "PENDING", scheduled_at |-> 1]>>
    /\ outbox = <<>>
    /\ budget = [f \in DOMAIN NoBudget |-> IF f = "faults" THEN 0
                                        ELSE IF f = "ops" THEN MaxOps ELSE AnyNumber]

Next ==
    \/ \E c \in ConvIds, to \in WhatsappNumbers : HandleIncomingMessage(c, to)
    \/ \E w \in Workers, c \in ConvIds, s \in AppTargetInputs : ApiCall(w, c, s)
    \/ \E w \in Workers : AdminCreate(w)
    \/ \E w \in Workers : ListenerCall(w)
    \/ \E w \in Workers : TransitionSteps(w)
    \/ \E w \in Workers : ApiReturn(w)
    \/ \E w \in Workers : AdminReturn(w)
    \/ \E w \in Workers : ListenerReturn(w)
    \/ \E c \in ConvIds, a \in AmountInputs, h \in {0, 1} : CreateIntent(c, a, h)
    \/ \E id \in IntentIdInputs, st \in PAYMENT_INTENT_STATUS : UpdateStatus(id, st, NoFields)
    \/ \E id \in IntentIdInputs, accepted \in BOOLEAN : InitiatePayment(id, accepted)
    \/ \E ref \in CheckoutRequestInputs, rc \in ResultCodeInputs : HandleCallback(ref, rc)
    \/ \E s \in Sweepers : SweepSelect(s)
    \/ \E s \in Sweepers : SweepUpdate(s)
    \/ \E c \in ConvIds, k \in TemplateInputs : ScheduleFollowUp(c, k, 1)
    \/ \E k \in DOMAIN followUpQueue : ProcessFollowUpSent(k)
    \/ \E k \in DOMAIN followUpQueue : ProcessFollowUpFailed(k)
    \/ CheckPendingFollowUps
    \/ CheckPendingFollowUpsSafe
    \/ Tick

Spec == Init /\ [][Next]_vars

----------------------------------------------------------------------------
(* Claims about the conversation state machine *)

\* a transitionTo call on c is between its validation and its COMMIT
InFlight(c) ==
    \E w \in Workers : th[w].pc \in {"update", "insert", "commit"} /\ th[w].conversationId = c

\* C1: for every conversation, current_state is the target of the last call
\* that passed validation (NEW_LEAD if none did) and the transition records
\* are exactly the validated calls, in order, each with its (from, to) pair;
\* a call still inside its transaction is not yet part of either.
C1_LastValidatedCallWins ==
    \A c \in DOMAIN conversations :
        LET v == validated[c]
            done == IF InFlight(c) THEN SubSeq(v, 1, Len(v) - 1) ELSE v
        IN /\ state_transitions[c] = done
           /\ conversations[c].current_state =
                 IF done = <<>> THEN "NEW_LEAD" ELSE done[Len(done)].to_state

C1_Witness ==
    \E c \in DOMAIN conversations, w \in Workers :
        /\ Len(state_transitions[c]) >= 2
        /\ ~InFlight(c)
        /\ th[w].pc = "return" /\ th[w].result = "invalid" /\ th[w].conversationId = c

\* both targets are edges from s and neither leads to the other
MutuallyExclusive(s, t1, t2) ==
    /\ s \in CONVERSATION_STATES
    /\ t1 \in STATE_TRANSITIONS[s] /\ t2 \in STATE_TRANSITIONS[s]
    /\ t2 \notin STATE_TRANSITIONS[t1] /\ t1 \notin STATE_TRANSITIONS[t2]

\* two finished calls that were issued against the same state of the same conversation
ConcurrentPair(w1, w2) ==
    /\ w1 # w2
    /\ th[w1].pc = "return" /\ th[w2].pc = "return"
    /\ th[w1].conversationId = th[w2].conversationId
    /\ th[w1].startLen = th[w2].startLen
    /\ th[w1].startState = th[w2].startState
    /\ MutuallyExclusive(th[w1].startState, th[w1].newState, th[w2].newState)

\* C2: of two concurrent transitionTo calls with mutually exclusive valid
\* targets exactly one commits, the other fails with the invalid-transition
\* error, and exactly one transition record is added.
C2_ExactlyOneCommits ==
    \A w1, w2 \in Workers :
        ConcurrentPair(w1, w2) =>
            /\ \/ th[w1].committed /\ th[w1].result = "ok"
                  /\ ~th[w2].committed /\ th[w2].result = "invalid"
               \/ th[w2].committed /\ th[w2].result = "ok"
                  /\ ~th[w1].committed /\ th[w1].result = "invalid"
            /\ Len(state_transitions[th[w1].conversationId]) = th[w1].startLen + 1

C2_Witness ==
    \E w1, w2 \in Workers :
        /\ ConcurrentPair(w1, w2)
        /\ th[w1].newState # th[w2].newState

\* the step of worker w that ends the validation of its call
Validates(w) == th[w].pc = "begin" /\ th'[w] # th[w]

IsEdge(c, target) ==
    /\ c \in DOMAIN conversations
    /\ target \in STATE_TRANSITIONS[conversations[c].current_state]

\* C3: a call whose (current_state, target) is no edge raises an error and
\* leaves the conversation row, the transition records and the event log
\* unchanged; a call on a missing conversation raises not-found and changes
\* nothing.
C3_RejectedCallChangesNothing ==
    [][\A w \in Workers :
         /\ (Validates(w) /\ ~IsEdge(th[w].conversationId, th[w].newState)) =>
               /\ th'[w].pc = "return"
               /\ th'[w].result = IF th[w].conversationId \in DOMAIN conversations
                                   THEN "invalid" ELSE "not_found"
               /\ UNCHANGED <<conversations, state_transitions, events, rowLock>>
         /\ (th[w].pc = "return" /\ th[w].result \in {"invalid", "not_found"}
                /\ th'[w] # th[w]) =>
               UNCHANGED <<conversations, state_transitions, events, rowLock>>
      ]_vars

C3_Witness ==
    \E w1, w2 \in Workers :
        /\ th[w1].pc = "return" /\ th[w1].result = "invalid"
        /\ th[w1].currentState = "NEW_LEAD" /\ th[w1].newState = "PAID"
        /\ th[w2].pc = "return" /\ th[w2].result = "not_found"

\* the row and its audit trail agree
AuditMatches(convs, trs, c) ==
    /\ convs[c].current_state \in CONVERSATION_STATES
    /\ IF trs[c] = <<>>
       THEN convs[c].current_state = "NEW_LEAD" /\ convs[c].previous_state = NULL
       ELSE /\ trs[c][Len(trs[c])].from_state = convs[c].previous_state
            /\ trs[c][Len(trs[c])].to_state = convs[c].current_state

\* C4: the state write and its audit record are atomic, storage failures
\* included: current_state is always one of the eight states, and every
\* change of current_state comes in the same step as exactly one new
\* transition record with the same (old, new) pair, and no record appears
\* without the change.
C4_StateWriteAtomicWithAudit ==
    [][\A c \in DOMAIN conversations' :
         /\ AuditMatches(conversations', state_transitions', c)
         /\ c \in DOMAIN conversations =>
              IF conversations'[c].current_state # conversations[c].current_state
              THEN /\ Len(state_transitions'[c]) = Len(state_transitions[c]) + 1
                   /\ SubSeq(state_transitions'[c], 1, Len(state_transitions[c]))
                         = state_transitions[c]
                   /\ state_transitions'[c][Len(state_transitions'[c])].from_state
                         = conversations[c].current_state
                   /\ state_transitions'[c][Len(state_transitions'[c])].to_state
                         = conversations'[c].current_state
              ELSE state_transitions'[c] = state_transitions[c]
      ]_vars

C4_Witness ==
    \E w \in Workers :
        /\ th[w].pc = "return" /\ th[w].result = "storage_error"
        /\ th[w].txState /\ ~th[w].committed
        /\ conversations[th[w].conversationId].current_state = th[w].currentState
        /\ state_transitions[th[w].conversationId] # <<>>

\* C5: every change of current_state follows an edge of STATE_TRANSITIONS,
\* and a CLOSED conversation never changes state again.
C5_ChangesFollowEdges ==
    [][\A c \in DOMAIN conversations :
         /\ c \in DOMAIN conversations'
         /\ conversations'[c].current_state # conversations[c].current_state =>
               /\ conversations[c].current_state \in CONVERSATION_STATES
               /\ conversations'[c].current_state
                     \in STATE_TRANSITIONS[conversations[c].current_state]
         /\ conversations[c].current_state = "CLOSED" =>
               conversations'[c].current_state = "CLOSED"
      ]_vars

C5_Witness ==
    \E w \in Workers :
        /\ th[w].pc = "return" /\ th[w].result = "invalid"
        /\ th[w].currentState = "CLOSED"
        /\ conversations[th[w].conversationId].current_state = "CLOSED"

----------------------------------------------------------------------------
(* Claims about who writes the state, and about the payment-intent engine *)

\* the number of PAYMENT_EXPIRED events in evs for intent id
ExpiredCount(evs, id) ==
    Cardinality({k \in DOMAIN evs :
                    /\ evs[k].event_type = "PAYMENT_EXPIRED"
                    /\ evs[k].payment_intent_id = id})

\* the two state columns of a conversation row
StateColumns(row) == <<row.current_state, row.previous_state>>

\* the COMMIT step of a transitionTo call of worker w for conversation c
CommitsFor(w, c) ==
    /\ th[w].pc = "commit" /\ th'[w].pc = "emit"
    /\ th[w].conversationId = c
    /\ StateColumns(conversations'[c]) = <<th[w].newState, th[w].currentState>>

\* C6: current_state and previous_state of an existing conversation change
\* only in the COMMIT step of a transitionTo call for that conversation, to
\* that call's target and the state it read; every other operation (inbound
\* message, createIntent, updateStatus, the expiry sweep, the M-Pesa connector,
\* the follow-up engines) leaves both alone, no conversation disappears, and
\* a conversation that appears starts in NEW_LEAD with no previous state.
C6_OnlyTransitionToChangesState ==
    [][/\ \A c \in DOMAIN conversations :
            /\ c \in DOMAIN conversations'
            /\ StateColumns(conversations'[c]) # StateColumns(conversations[c]) =>
                  \E w \in Workers : CommitsFor(w, c)
       /\ \A c \in DOMAIN conversations' \ DOMAIN conversations :
            StateColumns(conversations'[c]) = <<"NEW_LEAD", NULL>>
      ]_vars

\* the first message of c1 was handled and an intent of c1 was created, pushed
\* to M-Pesa and confirmed by the callback, with c1 still a NEW_LEAD
C6_Witness ==
    /\ "c1" \in DOMAIN conversations
    /\ StateColumns(conversations["c1"]) = <<"NEW_LEAD", NULL>>
    /\ \E id \in DOMAIN payment_intents :
          /\ payment_intents[id].conversation_id = "c1"
          /\ payment_intents[id].provider_reference # NoReference
          /\ payment_intents[id].provider_transaction_id = "R1"
          /\ payment_intents[id].status = "paid"

\* C7: once an intent's status is paid, failed or expired, no later step
\* changes its status, its paid_at or its failed_at.
C7_TerminalStatusNeverOverwritten ==
    [][\A id \in DOMAIN payment_intents :
         payment_intents[id].status \in TerminalStatus =>
            /\ payment_intents'[id].status = payment_intents[id].status
            /\ payment_intents'[id].paid_at = payment_intents[id].paid_at
            /\ payment_intents'[id].failed_at = payment_intents[id].failed_at
      ]_vars

\* the step in which sweep s runs updateStatus(id, 'expired')
SweepWrites(s, id) ==
    /\ sweep[s].pc = "run"
    /\ id \in sweep[s].rows
    /\ id \notin sweep'[s].rows

\* C8: when the provider's confirmation committed first (the intent is paid),
\* the sweep's later write for that intent changes nothing: the row stays as
\* it is and no PAYMENT_EXPIRED event is appended for it.
C8_ConfirmedIntentSurvivesSweep ==
    [][\A s \in Sweepers, id \in DOMAIN payment_intents :
         (SweepWrites(s, id) /\ payment_intents[id].status = "paid") =>
            /\ payment_intents'[id] = payment_intents[id]
            /\ ExpiredCount(events', id) = ExpiredCount(events, id)
      ]_vars

\* C9: with the sweeps interleaved arbitrarily, at most one PAYMENT_EXPIRED
\* event is appended for an intent only the sweeps have updated.
C9_AtMostOneExpiredEvent ==
    \A id \in DOMAIN payment_intents :
        id \notin apiUpdated => ExpiredCount(events, id) <= 1

\* the rows a sweep starting now has to expire
DueForExpiry(id) ==
    /\ payment_intents[id].status \in {"initiated", "pending"}
    /\ payment_intents[id].expires_at < now

----------------------------------------------------------------------------
(* Claims about the follow-up engine *)

\* the calls of sendMessage made for task t
SendsFor(t) == {n \in DOMAIN outbox : outbox[n].task = t}

\* the calls of sendMessage for task t that delivered
DeliveriesFor(t) == {n \in SendsFor(t) : outbox[n].ok}

\* C11: when a follow-up is scheduled and its one task is queued both by
\* scheduleFollowUp and by the recovery sweep, the task's message is delivered
\* at most once in every interleaving of the two jobs, and once both jobs
\* have run without a failed send the task is completed.
C11_AtMostOneDelivery ==
    Len(follow_up_tasks) = 1 =>
        /\ Cardinality(DeliveriesFor(1)) <= 1
        /\ (DeliveriesFor(1) = SendsFor(1) /\ SendsFor(1) # {} /\ followUpQueue = <<>>) =>
              follow_up_tasks[1].status = "completed"

\* the step is one execution of job k by processFollowUp
Executes(k) ==
    \/ followUpQueue' = RemoveAt(followUpQueue, k)
    \/ followUpQueue' = [followUpQueue EXCEPT ![k] = [@ EXCEPT !.attemptsLeft = @ - 1]]

\* C12: a task's status changes only from pending, only to completed or
\* failed, never again after that, and only in an execution of a job that
\* was queued for that very task, however many pending tasks the
\* conversation has.
C12_TaskSettledOnceByItsOwnJob ==
    [][\A t \in DOMAIN follow_up_tasks :
         follow_up_tasks'[t].status # follow_up_tasks[t].status =>
            /\ follow_up_tasks[t].status = "pending"
            /\ follow_up_tasks'[t].status \in {"completed", "failed"}
            /\ \E k \in DOMAIN followUpQueue :
                  followUpQueue[k].task = t /\ Executes(k)
      ]_vars

\* C13: processFollowUp calls sendMessage only for a task that is still
\* pending and a conversation that is neither CLOSED nor PAID at that moment.
C13_RelevanceCheckedBeforeSend ==
    [][Len(outbox') > Len(outbox) =>
         LET sent == outbox'[Len(outbox')]
         IN /\ sent.task \in DOMAIN follow_up_tasks
            /\ follow_up_tasks[sent.task].status = "pending"
            /\ conversations[sent.to].current_state \notin {"CLOSED", "PAID"}
      ]_vars

\* C14: a queued job never has more than JobAttempts executions ahead of it,
\* and the calls of sendMessage caused by one scheduled follow-up (one task)
\* never number more than JobAttempts.
C14_BoundedRetries ==
    /\ \A k \in DOMAIN followUpQueue : followUpQueue[k].attemptsLeft \in 1 .. JobAttempts
    /\ \A t \in DOMAIN follow_up_tasks : Cardinality(SendsFor(t)) <= JobAttempts

\* the jobs a step added at the tail of the queue
AddedJobs == SubSeq(followUpQueue', Len(followUpQueue) + 1, Len(followUpQueue'))

\* the tasks a sweep starting now has to re-submit
DueAndPending ==
    {t \in DOMAIN follow_up_tasks :
        follow_up_tasks[t].status = "pending" /\ follow_up_tasks[t].scheduled_time <= now}

\* C15: a run of checkPendingFollowUps adds to the queue one job for each
\* task that is pending with scheduled_time <= now, at most SweepBatch of
\* them, oldest scheduled_time first, and for no other task (not for a
\* failed, completed, escalated or cancelled one, not for one scheduled in
\* the future); it changes no task.
C15_SweepResubmitsDuePendingOnly ==
    [][budget'.fuchecks < budget.fuchecks =>
         /\ SubSeq(followUpQueue', 1, Len(followUpQueue)) = followUpQueue
         /\ follow_up_tasks' = follow_up_tasks
         /\ Len(AddedJobs) <= SweepBatch
         /\ Len(AddedJobs) = Cardinality(DueAndPending) \/ Len(AddedJobs) = SweepBatch
         /\ \A n \in DOMAIN AddedJobs :
               /\ AddedJobs[n].task \in DueAndPending
               /\ AddedJobs[n].conversationId =
                     follow_up_tasks[AddedJobs[n].task].conversation_id
               /\ AddedJobs[n].templateKey =
                     follow_up_tasks[AddedJobs[n].task].message_template_key
               /\ \A m \in DOMAIN AddedJobs :
                     n < m =>
                        /\ AddedJobs[n].task # AddedJobs[m].task
                        /\ follow_up_tasks[AddedJobs[n].task].scheduled_time
                              <= follow_up_tasks[AddedJobs[m].task].scheduled_time
      ]_vars

\* a sweep has re-submitted two tasks, the later inserted one first because it
\* was scheduled earlier, and left out a third that was not due or not pending
C15_Witness ==
    \E j, k \in DOMAIN followUpQueue, u \in DOMAIN follow_up_tasks :
        /\ j < k
        /\ ~followUpQueue[j].removeOnComplete /\ ~followUpQueue[k].removeOnComplete
        /\ followUpQueue[j].task > followUpQueue[k].task
        /\ follow_up_tasks[followUpQueue[j].task].scheduled_time
              < follow_up_tasks[followUpQueue[k].task].scheduled_time
        /\ \/ follow_up_tasks[u].scheduled_time > now
           \/ follow_up_tasks[u].status = "failed"
        /\ \A n \in DOMAIN followUpQueue :
              followUpQueue[n].task = u => followUpQueue[n].removeOnComplete

----------------------------------------------------------------------------
(* Claims about the application as wired *)

\* the conversation's history is the one transition NEW_LEAD -> ENGAGED
ScenarioTrail(c) ==
    state_transitions[c] = <<TransitionRow("NEW_LEAD", "ENGAGED", "customer_replied")>>

\* an intent of 1000 of the conversation was confirmed before it expired
ScenarioIntent(c) ==
    \E id \in DOMAIN payment_intents :
        /\ payment_intents[id].conversation_id = c
        /\ payment_intents[id].expected_amount = 1000
        /\ payment_intents[id].status = "paid"
        /\ payment_intents[id].paid_at < payment_intents[id].expires_at

\* the step in which the PAYMENT_CONFIRMED listener's transitionTo(PAID) of
\* worker w reads the conversation, at the end of the scenario
ReactionRuns(w) ==
    /\ th[w].caller = "listener" /\ th[w].pc = "begin" /\ th'[w] # th[w]
    /\ ScenarioTrail(th[w].conversationId)
    /\ ScenarioIntent(th[w].conversationId)

\* C16 as stated: after transitionTo(ENGAGED, customer_replied), createIntent(1000, 1),
\* updateStatus(paid) and the listener's transitionTo(PAID, PAYMENT_CONFIRMED), the
\* conversation is PAID and its transition history has length 2.
C16_ScenarioEndsPaid ==
    \A w \in Workers :
        (/\ th[w].caller = "listener" /\ th[w].pc = "return"
         /\ th[w].startLen = 1 /\ th[w].startState = "ENGAGED"
         /\ state_transitions[th[w].conversationId][1]
               = TransitionRow("NEW_LEAD", "ENGAGED", "customer_replied")
         /\ ScenarioIntent(th[w].conversationId))
        => /\ conversations[th[w].conversationId].current_state = "PAID"
           /\ Len(state_transitions[th[w].conversationId]) = 2

\* C16 amended: in that scenario the listener's transitionTo(PAID) is rejected
\* as an invalid transition (ENGAGED has no edge to PAID); the conversation
\* stays ENGAGED and its transition history keeps length 1.
C16_ScenarioEndsEngaged ==
    [][\A w \in Workers :
         ReactionRuns(w) =>
            /\ th'[w].pc = "return" /\ th'[w].result = "invalid"
            /\ conversations'[th[w].conversationId].current_state = "ENGAGED"
            /\ state_transitions'[th[w].conversationId]
                  = state_transitions[th[w].conversationId]
      ]_vars

C16_Witness ==
    \E w \in Workers :
        /\ th[w].caller = "listener" /\ th[w].pc = "return" /\ th[w].result = "invalid"
        /\ th[w].currentState = "ENGAGED"
        /\ ScenarioTrail(th[w].conversationId)
        /\ ScenarioIntent(th[w].conversationId)
        /\ conversations[th[w].conversationId].current_state = "ENGAGED"
        /\ \E n \in DOMAIN events : events[n].event_type = "PAYMENT_CONFIRMED"

\* C17: whenever transitionTo raises an error to its caller, for any reason
\* including a storage failure while appending the STATE_CHANGED event, the
\* call has committed nothing: current_state and the transition records are
\* as before the call, so the same call can be repeated and succeed.
C17_FailedCallCommitsNothing ==
    \A w \in Workers :
        (th[w].pc = "return" /\ th[w].result # "ok") => ~th[w].committed

StateChangedFor(c) ==
    {n \in DOMAIN events :
        events[n].event_type = "STATE_CHANGED" /\ events[n].conversation_id = c}

\* calls that have committed and have not yet reached the end of their emit
EmitsInFlight(c) ==
    {w \in Workers : th[w].pc = "emit" /\ th[w].conversationId = c}

\* C18: each committed transition has exactly one STATE_CHANGED event with its
\* {from_state, to_state, trigger} once its call is over, and every
\* STATE_CHANGED event has a committed transition record that matches it.
C18_OneEventPerCommittedTransition ==
    \A c \in DOMAIN conversations :
        /\ Cardinality(StateChangedFor(c)) + Cardinality(EmitsInFlight(c))
              = Len(state_transitions[c])
        /\ \A n \in StateChangedFor(c) :
              \E k \in DOMAIN state_transitions[c] :
                  state_transitions[c][k] = events[n].payload

----------------------------------------------------------------------------
(* Claims about the event bus *)

ConfirmedEventsOf(c) ==
    {n \in DOMAIN events :
        events[n].event_type = "PAYMENT_CONFIRMED" /\ events[n].conversation_id = c}

\* C19: whenever a subscriber is invoked with an event, that event's row is
\* the one the same emit has just appended to the event log; an emit whose
\* persisting fails invokes no subscriber.
C19_PersistedBeforeDelivered ==
    [][Len(listenerQueue') > Len(listenerQueue) =>
          /\ Len(events') = Len(events) + 1
          /\ SubSeq(events', 1, Len(events)) = events
          /\ events'[Len(events')].event_type = "PAYMENT_CONFIRMED"
          /\ listenerQueue'
                = Append(listenerQueue, events'[Len(events')].conversation_id)
      ]_vars

\* an emit has failed: an intent is paid with no PAYMENT_CONFIRMED row, and no
\* subscriber was or will be invoked
C19_Witness ==
    /\ listenerQueue = <<>>
    /\ \A w \in Workers : th[w].caller # "listener"
    /\ \E id \in DOMAIN payment_intents :
          /\ payment_intents[id].status = "paid"
          /\ ConfirmedEventsOf(payment_intents[id].conversation_id) = {}

\* the step in which the subscriber invoked for a PAYMENT_CONFIRMED event
\* ends with its transitionTo having thrown
HandlerFails(w) ==
    /\ th[w].caller = "listener" /\ th[w].pc = "return" /\ th[w].result # "ok"
    /\ th'[w].pc = "idle"

----------------------------------------------------------------------------
(* Claims about the payment reaction *)

\* a PAYMENT_CONFIRMED event of c waits for its subscriber while c is
\* WAITING_FOR_PAYMENT
ConfirmationPending(c) ==
    /\ c \in DOMAIN conversations
    /\ conversations[c].current_state = "WAITING_FOR_PAYMENT"
    /\ \E n \in DOMAIN listenerQueue : listenerQueue[n] = c

PaidByReaction(c) ==
    \E k \in DOMAIN state_transitions[c] :
        state_transitions[c][k]
           = TransitionRow("WAITING_FOR_PAYMENT", "PAID", "PAYMENT_CONFIRMED")

\* another caller's transition took c out of WAITING_FOR_PAYMENT
MovedOnByOther(c) ==
    \E k \in DOMAIN state_transitions[c] :
        /\ state_transitions[c][k].from_state = "WAITING_FOR_PAYMENT"
        /\ state_transitions[c][k].trigger # "PAYMENT_CONFIRMED"

\* C21 as stated: whenever an intent is set to paid while its conversation is
\* WAITING_FOR_PAYMENT, the PAYMENT_CONFIRMED subscriber eventually moves the
\* conversation to PAID with trigger PAYMENT_CONFIRMED.
C21_ConfirmationLeadsToPaid ==
    \A c \in ConvIds : ConfirmationPending(c) ~> PaidByReaction(c)

\* C21 amended: the subscriber eventually moves the conversation to PAID with
\* trigger PAYMENT_CONFIRMED unless another caller's transition out of
\* WAITING_FOR_PAYMENT commits first.
C21_ConfirmationLeadsToPaidUnlessMovedOn ==
    \A c \in ConvIds : ConfirmationPending(c) ~> (PaidByReaction(c) \/ MovedOnByOther(c))

C21_Witness ==
    /\ conversations["c1"].current_state = "PAID"
    /\ PaidByReaction("c1")
    /\ ~MovedOnByOther("c1")
    /\ \E id \in DOMAIN payment_intents :
          payment_intents[id].conversation_id = "c1" /\ payment_intents[id].status = "paid"

----------------------------------------------------------------------------
(* Claims about the payment intent engine and the connector *)

OpenIntentsOf(c) ==
    {id \in DOMAIN payment_intents :
        /\ payment_intents[id].conversation_id = c
        /\ payment_intents[id].status \in {"initiated", "pending"}}

\* C22: at most one payment intent per conversation is initiated or pending
\* at any time, for every interleaving of admin payment-create requests,
\* provider callbacks and expiry sweeps.
C22_OneOpenIntentPerConversation ==
    \A c \in ConvIds : Cardinality(OpenIntentsOf(c)) <= 1

\* a second payment-create request was rejected while the first intent is open
C22_Witness ==
    /\ OpenIntentsOf("c1") # {}
    /\ \E w \in Workers :
          /\ th[w].caller = "admin" /\ th[w].pc = "return" /\ th[w].result = "invalid"
          /\ th[w].conversationId = "c1"
          /\ th[w].startState = "WAITING_FOR_PAYMENT"

\* C23: createIntent with an amount that is zero or negative creates no payment
\* intent and appends no PAYMENT_INITIATED event.
C23_NoNonPositiveAmount ==
    /\ \A id \in DOMAIN payment_intents : payment_intents[id].expected_amount > 0
    /\ \A n \in DOMAIN events :
          events[n].event_type = "PAYMENT_INITIATED" => events[n].payload.amount > 0

IntentCreated == Len(payment_intents') > Len(payment_intents)

InitiatedAppended ==
    /\ Len(events') > Len(events)
    /\ events'[Len(events')].event_type = "PAYMENT_INITIATED"

\* C24: a createIntent on an existing conversation adds exactly one intent, in
\* status initiated, with the conversation's business_id, the given amount and
\* expires_at = now + expiryHours, appends exactly one PAYMENT_INITIATED event
\* referencing that intent and conversation, and changes no existing intent.
C24_CreateIntentEffect ==
    [][(IntentCreated \/ InitiatedAppended) =>
          LET id == Len(payment_intents')
              row == payment_intents'[id]
              ev == events'[Len(events')]
          IN /\ payment_intents' = Append(payment_intents, row)
             /\ events' = Append(events, ev)
             /\ ev.event_type = "PAYMENT_INITIATED"
             /\ ev.payment_intent_id = id
             /\ ev.conversation_id = row.conversation_id
             /\ row.conversation_id \in DOMAIN conversations
             /\ row.business_id = conversations[row.conversation_id].business_id
             /\ ev.business_id = row.business_id
             /\ row.status = "initiated"
             /\ row.expected_amount = ev.payload.amount
             /\ row.expires_at = now + ev.payload.expiryHours
      ]_vars

\* two intents were created one after the other; the first is as it was made
C24_Witness ==
    /\ Len(payment_intents) >= 2
    /\ payment_intents[1].status = "initiated"
    /\ payment_intents[2].status = "initiated"
    /\ payment_intents[2].expires_at > now
    /\ \E n \in DOMAIN events :
          /\ events[n].event_type = "PAYMENT_INITIATED"
          /\ events[n].payment_intent_id = 2

StatusEventTypes == {"PAYMENT_CONFIRMED", "PAYMENT_FAILED", "PAYMENT_EXPIRED"}

StatusOfEvent(eventType) ==
    IF eventType = "PAYMENT_CONFIRMED" THEN "paid"
    ELSE IF eventType = "PAYMENT_FAILED" THEN "failed" ELSE "expired"

\* the step appends a status event of intent id
StatusEventAppended(id) ==
    /\ Len(events') = Len(events) + 1
    /\ events'[Len(events')].event_type \in StatusEventTypes
    /\ events'[Len(events')].payment_intent_id = id

\* C25: an updateStatus call leaves the intent's stored status equal to
\* newStatus whatever the metadata object, and appends exactly one event whose
\* type matches the stored status (PAYMENT_CONFIRMED for paid, PAYMENT_FAILED
\* with the failure reason for failed, PAYMENT_EXPIRED for expired, none for
\* pending).
C25_EventMatchesStoredStatus ==
    [][\A id \in DOMAIN payment_intents :
         /\ StatusEventAppended(id) =>
               LET ev == events'[Len(events')]
                   row == payment_intents'[id]
               IN /\ row.status = StatusOfEvent(ev.event_type)
                  /\ (ev.event_type = "PAYMENT_FAILED" /\ row.failure_reason # NULL)
                        => ev.payload.reason = row.failure_reason
         /\ (/\ payment_intents'[id].status # payment_intents[id].status
             /\ payment_intents'[id].status \in EmittingStatus)
               => StatusEventAppended(id)
      ]_vars

\* C26: an intent's expected_amount and currency never change after
\* createIntent, whatever updateStatus call, connector or sweep operation runs.
C26_AmountAndCurrencyImmutable ==
    [][\A id \in DOMAIN payment_intents :
         /\ payment_intents'[id].expected_amount = payment_intents[id].expected_amount
         /\ payment_intents'[id].currency = payment_intents[id].currency
      ]_vars

StkPushStep == budget'.stk < budget.stk

CallbackStep == budget'.callbacks < budget.callbacks

\* the intents an STK push was accepted for
PushedIntents == {id \in DOMAIN payment_intents :
                     payment_intents[id].provider_reference # NoReference}

\* C27: initiatePayment changes only provider_reference; handleCallback changes
\* an intent only as updateStatus does (paid for ResultCode 0, failed with the
\* result description otherwise), only on an intent that carries a
\* provider_reference, and a callback matching no intent changes no intent and
\* appends no event.
C27_ConnectorWritesThroughUpdateStatus ==
    [][/\ StkPushStep =>
            /\ events' = events
            /\ DOMAIN payment_intents' = DOMAIN payment_intents
            /\ \A id \in DOMAIN payment_intents :
                  payment_intents'[id] =
                     [payment_intents[id] EXCEPT
                         !.provider_reference = payment_intents'[id].provider_reference]
       /\ CallbackStep =>
            \/ UNCHANGED <<payment_intents, events>>
            \/ \E id \in PushedIntents, rc \in ResultCodeInputs :
                  /\ payment_intents' =
                        IntentsAfterUpdate(payment_intents, id, CallbackStatus(rc),
                                           CallbackMetadata(rc))
                  /\ events' =
                        EventsAfterUpdate(events, payment_intents', id, CallbackStatus(rc),
                                          CallbackMetadata(rc))
                  /\ payment_intents'[id].status = CallbackStatus(rc)
       /\ (CallbackStep /\ PushedIntents = {}) => UNCHANGED <<payment_intents, events>>
      ]_vars

\* a pushed intent was failed by its callback, a callback for an unknown
\* reference has come in, and the intent that was never pushed is untouched
C27_Witness ==
    /\ budget.callbacks <= MaxMpesaOps - 2
    /\ \E id \in PushedIntents :
          /\ payment_intents[id].status = "failed"
          /\ payment_intents[id].failure_reason = "cancelled"
          /\ \E n \in DOMAIN events :
                events[n].event_type = "PAYMENT_FAILED" /\ events[n].payment_intent_id = id
    /\ Cardinality({n \in DOMAIN events : events[n].event_type \in StatusEventTypes}) = 1

----------------------------------------------------------------------------
(* Claims about the event log *)

\* C28: every persisted event has the fields passed to emit and an identifier
\* distinct from that of every other event, and the events of a single
\* conversation appear in the log, which is read by created_at, in the order
\* their appends completed.
C28_LogKeepsAppendOrder ==
    \A m, n \in LoggedRows :
        m < n =>
           /\ events[m].event_id # events[n].event_id
           /\ events[m].conversation_id = events[n].conversation_id
                 => events[m].created_at < events[n].created_at

----------------------------------------------------------------------------
(* Claims about follow-up tasks and their jobs *)

FollowUpSentEvents == {n \in DOMAIN events : events[n].event_type = "FOLLOW_UP_SENT"}

DeliveredSends == {n \in DOMAIN outbox : outbox[n].ok}

\* C29: whenever a send for a follow-up task succeeds, on the first attempt or
\* on a retry after a failed one, the task is completed with message_sent true
\* and one FOLLOW_UP_SENT event is appended; a task is failed only if no send
\* for it ever succeeded.  Stated for the runs with a single task, where the
\* task a job settles is the one it was queued for.
C29_OutcomeMatchesDelivery ==
    /\ Len(follow_up_tasks) = 1 =>
          /\ DeliveriesFor(1) # {} =>
                /\ follow_up_tasks[1].status = "completed"
                /\ follow_up_tasks[1].message_sent
          /\ follow_up_tasks[1].status = "failed" => DeliveriesFor(1) = {}
    /\ Cardinality(FollowUpSentEvents) = Cardinality(DeliveredSends)

ScheduleStep == budget'.followups < budget.followups

\* C30: scheduleFollowUp queues a job if and only if it persists a pending
\* task row with scheduled_time = now + delayMinutes, also when the
\* conversation id does not exist, and the job does not run before
\* scheduled_time.
C30_JobIffPendingTask ==
    [][ScheduleStep =>
          /\ Len(followUpQueue') = Len(followUpQueue) + 1
                <=> Len(follow_up_tasks') = Len(follow_up_tasks) + 1
          /\ Len(followUpQueue') = Len(followUpQueue) + 1 =>
                LET job == followUpQueue'[Len(followUpQueue')]
                    row == follow_up_tasks'[Len(follow_up_tasks')]
                IN /\ row.status = "pending"
                   /\ row.conversation_id = job.conversationId
                   /\ row.scheduled_time = job.notBefore
                   /\ job.notBefore >= now
      ]_vars

----------------------------------------------------------------------------
(* Claims about ids that do not resolve *)

\* a createIntent or updateStatus call made from outside the application
EngineCallStep == budget'.payops < budget.payops

\* C31: a payment-engine call given an id that does not resolve raises an
\* error and changes nothing: updateStatus on a non-existent intent id, for
\* every newStatus, and createIntent on a non-existent conversation id raise,
\* write no intent and append no event.
C31_UnresolvedIdRaisesAndChangesNothing ==
    [][(EngineCallStep /\ ~engineResult'.resolved) =>
          /\ engineResult'.raised
          /\ payment_intents' = payment_intents
          /\ events' = events
      ]_vars

----------------------------------------------------------------------------
(* Claims about the admin payment-create request *)

\* the payment-create request of worker w finishes in this step
CreateRequestEnds(w) ==
    th[w].caller = "admin" /\ th[w].pc = "return" /\ th'[w].pc = "idle"

\* C36: the admin payment-create request is all-or-nothing: a request whose
\* transition to WAITING_FOR_PAYMENT was committed finishes with a payment
\* intent created by it for that conversation; when createIntent fails the
\* conversation is not left in WAITING_FOR_PAYMENT without an intent.
C36_CreateRequestAllOrNothing ==
    [][\A w \in Workers :
          (CreateRequestEnds(w) /\ th[w].committed) =>
             /\ Len(payment_intents') = Len(payment_intents) + 1
             /\ payment_intents'[Len(payment_intents')].conversation_id
                   = th[w].conversationId
      ]_vars

----------------------------------------------------------------------------
(* Claims about the order of transition records and STATE_CHANGED events *)

\* the records, in commit order, walk the transition graph from NEW_LEAD
IsPathFromNewLead(trail) ==
    \A k \in DOMAIN trail :
        /\ trail[k].to_state \in STATE_TRANSITIONS[trail[k].from_state]
        /\ trail[k].from_state = IF k = 1 THEN "NEW_LEAD" ELSE trail[k - 1].to_state

\* C32: for every conversation created by the message handler the transition
\* records in commit order form a path in the transition graph that starts
\* at NEW_LEAD, each record starting where the previous one ended, and while
\* the conversation has a record its previous_state and current_state are
\* the from_state and to_state of the latest one.
C32_RecordsFormPath ==
    \A c \in DOMAIN conversations :
        LET trail == state_transitions[c]
        IN /\ IsPathFromNewLead(trail)
           /\ trail # <<>> =>
                 /\ conversations[c].previous_state = trail[Len(trail)].from_state
                 /\ conversations[c].current_state = trail[Len(trail)].to_state

\* two committed transitions of one conversation and a third call turned away
C32_Witness ==
    \E c \in DOMAIN conversations, w \in Workers :
        /\ Len(state_transitions[c]) >= 2
        /\ th[w].conversationId = c
        /\ th[w].pc = "return" /\ th[w].result = "invalid"

\* the place of log row n among the STATE_CHANGED events of conversation c
RankInLog(c, n) == Cardinality({m \in StateChangedFor(c) : m <= n})

\* C33: the STATE_CHANGED events of one conversation are appended to the
\* event log in the order in which the transitions they describe were
\* committed, for every interleaving of concurrent transitionTo calls on
\* the conversation: the k-th such event describes the k-th record.
C33_EventsInCommitOrder ==
    \A c \in DOMAIN conversations :
        \A n \in StateChangedFor(c) :
            /\ RankInLog(c, n) <= Len(state_transitions[c])
            /\ state_transitions[c][RankInLog(c, n)] = events[n].payload

----------------------------------------------------------------------------
(* Claims about retries of a follow-up job *)

\* C34: a message that processFollowUp has sent successfully is never sent
\* again by the queue's retries of the same job: when a step after the send
\* fails, the error raised to the queue leads to no second outbound send for
\* that job (here every task has one job only, so a send is of the job of
\* its task).
C34_NoResendAfterDelivery ==
    [][Len(outbox') > Len(outbox) =>
          LET sent == outbox'[Len(outbox')]
          IN DeliveriesFor(sent.task) = {}
      ]_vars

----------------------------------------------------------------------------
(* Claims about repeated provider callbacks *)

\* the PAYMENT_CONFIRMED rows of the log for intent id
ConfirmedEventsFor(evs, id) ==
    {n \in DOMAIN evs :
        evs[n].event_type = "PAYMENT_CONFIRMED" /\ evs[n].payment_intent_id = id}

\* the transition records of conversation c that lead into PAID
RecordsIntoPaid(trs, c) == {k \in DOMAIN trs[c] : trs[c][k].to_state = "PAID"}

\* a call of handleCallback
ProviderCallbackStep == budget'.callbacks < budget.callbacks

\* C35: provider callback handling is idempotent: a successful callback that
\* is delivered again for an intent already paid leaves it paid with the
\* same paid_at and with exactly one PAYMENT_CONFIRMED event, and the
\* conversation never has more than one transition record into PAID.
C35_CallbackIdempotent ==
    [][/\ ProviderCallbackStep =>
             \A id \in DOMAIN payment_intents :
                 (payment_intents[id].status = "paid"
                     /\ payment_intents'[id].status = "paid") =>
                    /\ payment_intents'[id].paid_at = payment_intents[id].paid_at
                    /\ Cardinality(ConfirmedEventsFor(events', id)) = 1
       /\ \A c \in DOMAIN conversations :
             Cardinality(RecordsIntoPaid(state_transitions', c)) <= 1
      ]_vars

----------------------------------------------------------------------------
(* Claims about what the wired entry points can reach *)

\* the conversation of customer c1, created in NEW_LEAD by the message handler
LeadCreated == "c1" \in DOMAIN conversations

\* staff have sent the payment-create request for it
LeadPaymentRequested ==
    /\ LeadCreated
    /\ \E w \in Workers :
          th[w].caller = "admin" /\ th[w].conversationId = "c1" /\ th[w].pc = "begin"

LeadPaid == LeadCreated /\ conversations["c1"].current_state = "PAID"

\* C37: using only the entry points the application wires up, a conversation
\* created in NEW_LEAD by the message handler can reach PAID: once staff
\* request a payment for it, and while requests keep coming in, it gets there.
C37_NewLeadReachesPaid == LeadPaymentRequested ~> LeadPaid

----------------------------------------------------------------------------
(* Claims about the safe-mode follow-up engine *)

\* the delivered sends recorded for row k of follow_ups
SafeDeliveries(out, k) == {n \in DOMAIN out : out[n].task = k /\ out[n].ok}

\* C38: in the safe-mode engine, across any number of sweeps run one after
\* the other, each follow-up is sent successfully at most once: a row is
\* marked SENT only in a sweep that delivered its send, a SENT row is never
\* selected again, and a row that was not delivered stays PENDING.
C38_SafeModeSendsAtMostOnce ==
    [][\A k \in DOMAIN follow_ups :
          LET before == SafeDeliveries(outbox, k)
              after == SafeDeliveries(outbox', k)
          IN /\ Cardinality(after) <= 1
             /\ follow_ups'[k].status # follow_ups[k].status =>
                   /\ follow_ups[k].status = "PENDING"
                   /\ follow_ups'[k].status = "SENT"
                   /\ after # before
             /\ follow_ups[k].status = "SENT" => after = before
             /\ (follow_ups[k].status = "PENDING" /\ after = before) =>
                   follow_ups'[k].status = "PENDING"
      ]_vars

====
